---- MODULE Spec2Model ----
(***************************************************************************)
(* Kaonic serial number system: the key registry, the request             *)
(* authenticator and the ingestion pipeline of server.py, crypto_utils.py *)
(* and db.py, as a state machine over the tables of the PostgreSQL store. *)
(*                                                                         *)
(* Text that the code inspects character by character (device ids,        *)
(* week/year codes, the serial of a verification lookup) is a sequence of *)
(* one-character strings.  Text that the code only compares or stores     *)
(* (factory names, batch ids, actor labels) is a TLA+ string.  A nullable *)
(* column or an Optional result is None (<<>>) or Some(v) (<<v>>).        *)
(***************************************************************************)
EXTENDS Integers, Sequences, FiniteSets, TLC

None == <<>>
Some(v) == <<v>>
IsNone(x) == x = <<>>
The(x) == x[1]

(***************************************************************************)
(* Bounds of the model.                                                    *)
(***************************************************************************)
\* rows of public_key_requests the model lets register create
MaxRegs == 2
\* the clock (time.time() / CURRENT_TIMESTAMP) runs from 0 to MaxNow
MaxNow == 1
\* requests the threaded server serves at the same time
MaxWorkers == 2
MaxQueue == 3
\* the longest status history of a registration that is remembered
MaxPath == 4

(***************************************************************************)
(* Program constants.                                                      *)
(***************************************************************************)
\* server.py:212  abs(current_time - int(timestamp)) > 300
ReplayWindow == 300
\* db.py:40  serial_number VARCHAR(20)
SerialNumberMaxLen == 20
\* server.py:37  ^K1S-[A-Z0-9]{1,10}$
SerialPatternMaxId == 10
\* server.py:95  zfill(4)
WwyyWidth == 4
\* server.py:97  year = 2000 + int(wwyy_str[2:])
CenturyBase == 2000
\* _strptime: %W accepts week numbers 0..53
MaxStrptimeWeek == 53
\* _strptime: %Y is exactly four digits
MaxStrptimeYear == 9999

(***************************************************************************)
(* Python string operations on character sequences.                        *)
(***************************************************************************)
Digits == <<"0", "1", "2", "3", "4", "5", "6", "7", "8", "9">>
LowerCase == <<"a", "b", "c", "d", "e", "f", "g", "h", "i", "j", "k", "l", "m",
               "n", "o", "p", "q", "r", "s", "t", "u", "v", "w", "x", "y", "z">>
UpperCase == <<"A", "B", "C", "D", "E", "F", "G", "H", "I", "J", "K", "L", "M",
               "N", "O", "P", "Q", "R", "S", "T", "U", "V", "W", "X", "Y", "Z">>

Range(s) == {s[i] : i \in DOMAIN s}
IndexOf(s, c) == CHOOSE i \in DOMAIN s : s[i] = c
DigitChars == Range(Digits)
LowerChars == Range(LowerCase)
UpperChars == Range(UpperCase)
IsDigit(c) == c \in DigitChars
DigitVal(c) == IndexOf(Digits, c) - 1
IsSpace(c) == c = " "

\* str.upper()
UpperChar(c) == IF c \in LowerChars THEN UpperCase[IndexOf(LowerCase, c)] ELSE c
upper(s) == [i \in DOMAIN s |-> UpperChar(s[i])]

\* str.strip(): drops the whitespace at both ends
RECURSIVE lstrip(_)
lstrip(s) == IF s # <<>> /\ IsSpace(Head(s)) THEN lstrip(Tail(s)) ELSE s
RECURSIVE rstrip(_)
rstrip(s) == IF s # <<>> /\ IsSpace(s[Len(s)]) THEN rstrip(SubSeq(s, 1, Len(s) - 1)) ELSE s
strip(s) == rstrip(lstrip(s))

\* str.zfill(width) of a string without a sign
RECURSIVE zfill(_, _)
zfill(s, width) == IF Len(s) >= width THEN s ELSE zfill(<<"0">> \o s, width)

\* int(s) of a string of ASCII digits; None stands for the ValueError that
\* int() raises on the empty string and on the letters the model submits
RECURSIVE DigitsValue(_)
DigitsValue(s) == IF s = <<>> THEN 0 ELSE 10 * DigitsValue(SubSeq(s, 1, Len(s) - 1)) + DigitVal(s[Len(s)])
int(s) == IF s # <<>> /\ \A i \in DOMAIN s : IsDigit(s[i]) THEN Some(DigitsValue(s)) ELSE None

(***************************************************************************)
(* The calendar of datetime.strptime(..., "%Y-W%W-%w").                    *)
(***************************************************************************)
IsLeap(y) == (y % 4 = 0 /\ y % 100 # 0) \/ y % 400 = 0
YearLen(y) == IF IsLeap(y) THEN 366 ELSE 365
MonthLen(y, m) == IF m = 2 THEN (IF IsLeap(y) THEN 29 ELSE 28)
                  ELSE IF m \in {4, 6, 9, 11} THEN 30 ELSE 31

\* datetime's _days_before_year: the days before 1 January of year y
days_before_year(y) == (y - 1) * 365 + (y - 1) \div 4 - (y - 1) \div 100 + (y - 1) \div 400
\* date(year, 1, 1).weekday(), Monday = 0: (toordinal() + 6) % 7
Jan1Weekday(y) == (days_before_year(y) + 1 + 6) % 7

\* datetime's _DAYS_BEFORE_MONTH and _days_before_month
DaysBeforeMonthTable == <<0, 31, 59, 90, 120, 151, 181, 212, 243, 273, 304, 334>>
days_before_month(y, m) == DaysBeforeMonthTable[m] + (IF m > 2 /\ IsLeap(y) THEN 1 ELSE 0)

\* a plausible slip: the day of the year is taken for a day of January
MonthDay_of_january(y, j) == [year |-> y, month |-> 1, day |-> j]

\* date.fromordinal of day number j of year y, j possibly past the year's end
\* (the julian day of a week 0..53 is at most 371)
MonthDay(y, j) ==
    LET m == CHOOSE k \in 1..12 : j - days_before_month(y, k) \in 1..MonthLen(y, k)
    IN  [year |-> y, month |-> m, day |-> j - days_before_month(y, m)]
DateOfYearDay(y, j) == IF j > YearLen(y) THEN MonthDay(y + 1, j - YearLen(y))
                       ELSE MonthDay(y, j)

\* _strptime._calc_julian_from_U_or_W with week_starts_Mon and %w = 1
calc_julian_from_W(year, week) ==
    LET first_weekday == Jan1Weekday(year)
        week_0_length == (7 - first_weekday) % 7
    IN  IF week = 0 THEN 1 - first_weekday
        ELSE 1 + week_0_length + 7 * (week - 1)

\* _strptime: the date of the Monday of week `week` of `year`, with the
\* julian <= 0 correction into the previous year
strptime_week_monday(year, week) ==
    LET julian == calc_julian_from_W(year, week)
    IN  IF julian <= 0 THEN DateOfYearDay(year - 1, julian + YearLen(year - 1))
        ELSE DateOfYearDay(year, julian)

IsValidDate(d) == /\ d.month \in 1..12
                  /\ d.day \in 1..MonthLen(d.year, d.month)

\* server.py convert_wwyy_to_date: Some(date), or None after a ValueError
convert_wwyy_to_date(wwyy) ==
    LET wwyy_str == zfill(wwyy, WwyyWidth)
        week == int(SubSeq(wwyy_str, 1, 2))
        yy == int(SubSeq(wwyy_str, 3, Len(wwyy_str)))
    IN  IF IsNone(week) \/ IsNone(yy) THEN None
        ELSE IF The(week) > MaxStrptimeWeek \/ CenturyBase + The(yy) > MaxStrptimeYear THEN None
        ELSE Some(strptime_week_monday(CenturyBase + The(yy), The(week)))

(***************************************************************************)
(* The store (db.py initialize_db) and the last response.                  *)
(*   public_key_requests  sequence of rows; a row's id is its index        *)
(*   serials              set of rows, serial_number the primary key       *)
(*   batch_uploads        set of rows, id the primary key                  *)
(*   batch_chunks         set of rows, (batch_id, chunk_index) unique      *)
(*   now                  the clock read by time.time() and                *)
(*                        CURRENT_TIMESTAMP                                *)
(*   resp                 the request last served and its response         *)
(*   prev                 history: a summary of the response before resp,  *)
(*                        kept only by the specifications that track it    *)
(*   inflight             the requests being served: for each worker of    *)
(*                        the threaded server the position of its handler  *)
(*                        and the handler's locals, its open transaction   *)
(*                        included.  The handlers below that are written   *)
(*                        as one step leave it alone.                      *)
(*   offline_queue        the offline_queue table: a set of rows [id,      *)
(*                        factory_id, batch_id, status, retry_count,       *)
(*                        max_retries, last_attempt, error_message]        *)
(***************************************************************************)
VARIABLES public_key_requests, serials, batch_uploads, batch_chunks, now, resp, prev, inflight, offline_queue

vars == <<public_key_requests, serials, batch_uploads, batch_chunks, now, resp, prev, inflight,
         offline_queue>>
tables == <<public_key_requests, serials, batch_uploads, batch_chunks>>
upload_tables == <<serials, batch_uploads, batch_chunks>>

\* the workers of the threaded server (app.run), and a worker between requests
Workers == 1..MaxWorkers
Idle == [pc |-> "idle"]

Init == /\ public_key_requests = <<>>
        /\ serials = {}
        /\ batch_uploads = {}
        /\ batch_chunks = {}
        /\ now = 0
        /\ resp = [op |-> "start"]
        /\ prev = [op |-> "other"]
        /\ inflight = [w \in Workers |-> Idle]
        /\ offline_queue = {}

\* the history variable: Track remembers whether the response that the step
\* replaces was that of a revocation, and of which request
Summary(r) == IF r.op = "revoke_request"
              THEN [op |-> r.op, code |-> r.code, request_id |-> r.req.request_id]
              ELSE [op |-> "other"]
Track == prev' = Summary(resp)
\* TrackRepeat remembers whether the step served again, and accepted again, the
\* upload that the response before it had accepted
TrackRepeat == prev' = IF /\ resp.op \in {"add_serials", "add_batch_serials", "add_chunk_serials"}
                          /\ resp'.op = resp.op
                          /\ resp.code = 200
                          /\ resp'.code = 200
                          /\ resp'.req = resp.req
                       THEN [op |-> "repeat"]
                       ELSE [op |-> "other"]
NoTrack == UNCHANGED prev

\* the clock advances between requests
Tick == /\ now < MaxNow
        /\ now' = now + 1
        /\ UNCHANGED <<tables, resp, prev, inflight, offline_queue>>

(***************************************************************************)
(* Key material.  A submitted public_key text is [mat, form]: mat names    *)
(* the key pair, form is how the text is written: "pem" (a PEM P-256 key), *)
(* "b64" (the bare base64 body of that PEM, without the BEGIN/END lines),  *)
(* "junk" (no key at all), "missing" (field absent), "rsa" (a PEM public   *)
(* key that is not an EC key), "p384" (a PEM EC public key on a curve      *)
(* other than secp256r1).  Two texts are the same column value only when   *)
(* both mat and form agree.                                                *)
(***************************************************************************)
KeyText(mat, form) == [mat |-> mat, form |-> form]
NoKey == KeyText("", "missing")

\* a plausible slip: the curve of an EC key is not checked
validate_public_key_format_any_curve(public_key) == public_key.form \in {"pem", "b64", "p384"}

\* crypto_utils.py validate_public_key_format: a text that does not start with
\* the PEM header is wrapped into PEM before it is loaded; the loaded key must
\* be an EC key on secp256r1
validate_public_key_format(public_key) == public_key.form \in {"pem", "b64"}

\* cryptography's load_pem_public_key, as verify_ecdsa_signature calls it on the
\* stored text: only a text in PEM form loads
load_pem_public_key(public_key_pem) == public_key_pem.form = "pem"

(***************************************************************************)
(* Signatures.  [scheme, key, msg]: scheme "ecdsa" is a DER ECDSA/SHA-256  *)
(* signature made with the private key of key pair `key`; scheme "hmac" is *)
(* an HMAC-SHA256 tag under secret `key`; msg is the signed message.       *)
(***************************************************************************)
HmacSecret == "flutter_client_secret_key"
Signature(scheme, key, msg) == [scheme |-> scheme, key |-> key, msg |-> msg]
NoSignature == Signature("missing", "", <<>>)
GarbageSignature == Signature("garbage", "", <<>>)

\* crypto_utils.py compute_file_hash: SHA-256 is taken to be collision free, so
\* the digest stands for the exact content
compute_file_hash(file_content) == <<"sha256", file_content>>

\* crypto_utils.py create_signature_message: f"{timestamp}{file_hash}"
create_signature_message(timestamp, file_hash) == <<timestamp, file_hash>>

\* crypto_utils.py verify_ecdsa_signature (is_valid only)
verify_ecdsa_signature(public_key_pem, message, signature) ==
    /\ load_pem_public_key(public_key_pem)
    /\ signature.scheme = "ecdsa"
    /\ signature.key = public_key_pem.mat
    /\ signature.msg = message

\* crypto_utils.py verify_hmac_signature with the default secret_key
verify_hmac_signature(message, signature) ==
    /\ signature.scheme = "hmac"
    /\ signature.key = HmacSecret
    /\ signature.msg = message

(***************************************************************************)
(* Key registry.                                                           *)
(***************************************************************************)
RequestIds == DOMAIN public_key_requests

\* a plausible slip: ORDER BY approved_at without DESC, the oldest approval first
Min(S) == CHOOSE x \in S : \A y \in S : x <= y

\* ORDER BY ... DESC LIMIT 1: the greatest value
Max(S) == CHOOSE x \in S : \A y \in S : y <= x

\* a plausible slip: the lookup forgets AND status = 'approved'
get_factory_public_key_from_db_any_status(factory_id) ==
    LET named == {i \in RequestIds : public_key_requests[i].factory_name = factory_id}
    IN  IF named = {} THEN {None}
        ELSE {Some(public_key_requests[i].public_key) : i \in named}

\* a plausible slip: the lookup forgets WHERE factory_name = %s
get_factory_public_key_from_db_any_factory(factory_id) ==
    LET approved == {i \in RequestIds : public_key_requests[i].status = "approved"}
    IN  IF approved = {} THEN {None}
        ELSE {Some(public_key_requests[i].public_key) : i \in approved}

\* crypto_utils.py get_factory_public_key_from_db: the results the query
\*   SELECT public_key ... WHERE factory_name = %s AND status = 'approved'
\*   ORDER BY approved_at DESC LIMIT 1
\* can return: None, or Some(key) of a row with the newest approved_at (rows
\* that tie on approved_at come back in an order the store chooses)
get_factory_public_key_from_db(factory_id) ==
    LET approved == {i \in RequestIds :
                        /\ public_key_requests[i].factory_name = factory_id
                        /\ public_key_requests[i].status = "approved"}
        newest == Max({The(public_key_requests[i].approved_at) : i \in approved})
    IN  IF approved = {} THEN {None}
        ELSE {Some(public_key_requests[i].public_key) :
                 i \in {j \in approved : The(public_key_requests[j].approved_at) = newest}}

\* a plausible slip: the shared-secret check does not wait for the key lookup
verify_with_key_hmac_without_key(public_key_pem, signature, timestamp, csv_hash, factory_id) ==
    LET message == create_signature_message(timestamp, csv_hash)
    IN  IF verify_hmac_signature(message, signature) THEN <<TRUE, Some(factory_id)>>
        ELSE IF IsNone(public_key_pem) THEN <<FALSE, None>>
        ELSE IF verify_ecdsa_signature(The(public_key_pem), message, signature)
             THEN <<TRUE, Some(factory_id)>>
        ELSE <<FALSE, None>>

\* server.py verify_signature_with_factory_key given the key the lookup
\* returned: <<is_valid, factory_alias>>
verify_with_key(public_key_pem, signature, timestamp, csv_hash, factory_id) ==
    LET message == create_signature_message(timestamp, csv_hash)
    IN  IF IsNone(public_key_pem) THEN <<FALSE, None>>
        ELSE IF verify_ecdsa_signature(The(public_key_pem), message, signature)
             THEN <<TRUE, Some(factory_id)>>
        ELSE IF verify_hmac_signature(message, signature)
             THEN <<TRUE, Some(factory_id)>>
        ELSE <<FALSE, None>>

\* server.py verify_signature_with_factory_key: the possible results
verify_signature_with_factory_key(signature, timestamp, csv_hash, factory_id) ==
    {verify_with_key(k, signature, timestamp, csv_hash, factory_id) :
        k \in get_factory_public_key_from_db(factory_id)}

\* a plausible slip: the duplicate check looks at pending rows only
existing_registrations_pending_only(public_key) ==
    {i \in RequestIds : /\ public_key_requests[i].public_key = public_key
                        /\ public_key_requests[i].status = "pending"}

\* server.py:300-304  SELECT id, status FROM public_key_requests WHERE public_key = %s
existing_registrations(public_key) ==
    {i \in RequestIds : public_key_requests[i].public_key = public_key}

\* a new row of public_key_requests (server.py:315-319, defaults of db.py:69-77)
new_registration(factory_name, public_key) ==
    [factory_name |-> factory_name, public_key |-> public_key, status |-> "pending",
     created_at |-> now, approved_at |-> None, approved_by |-> None]

\* a plausible slip: a key that is registered already is taken over by the
\* factory name of the new request (INSERT ... ON CONFLICT DO UPDATE)
register_public_key_upsert(factory_name, public_key) ==
    LET req == [factory_name |-> factory_name, public_key |-> public_key]
        existing == existing_registrations(public_key)
    IN  /\ UNCHANGED <<serials, batch_uploads, batch_chunks, now, inflight, offline_queue>>
        /\ IF factory_name = "" \/ public_key = NoKey \/ ~validate_public_key_format(public_key)
           THEN /\ resp' = [op |-> "register_public_key", req |-> req, code |-> 400,
                            error |-> "Invalid request"]
                /\ UNCHANGED public_key_requests
           ELSE IF existing # {}
           THEN \E i \in existing :
                   /\ public_key_requests' =
                          [public_key_requests EXCEPT ![i].factory_name = factory_name]
                   /\ resp' = [op |-> "register_public_key", req |-> req, code |-> 200,
                               error |-> "", request_id |-> i,
                               status |-> public_key_requests[i].status]
           ELSE /\ Len(public_key_requests) < MaxRegs
                /\ public_key_requests' =
                       Append(public_key_requests, new_registration(factory_name, public_key))
                /\ resp' = [op |-> "register_public_key", req |-> req, code |-> 201,
                            error |-> "", request_id |-> Len(public_key_requests) + 1,
                            status |-> "pending"]

\* server.py register_public_key
register_public_key(factory_name, public_key) ==
    LET req == [factory_name |-> factory_name, public_key |-> public_key]
        existing == existing_registrations(public_key)
    IN  /\ UNCHANGED <<serials, batch_uploads, batch_chunks, now, inflight, offline_queue>>
        /\ IF factory_name = "" \/ public_key = NoKey
           THEN /\ resp' = [op |-> "register_public_key", req |-> req, code |-> 400,
                            error |-> "factory_name and public_key are required"]
                /\ UNCHANGED public_key_requests
           ELSE IF ~validate_public_key_format(public_key)
           THEN /\ resp' = [op |-> "register_public_key", req |-> req, code |-> 400,
                            error |-> "Invalid public key format"]
                /\ UNCHANGED public_key_requests
           ELSE IF existing # {}
           THEN /\ \E i \in existing :
                      resp' = [op |-> "register_public_key", req |-> req, code |-> 200,
                               error |-> "", request_id |-> i,
                               status |-> public_key_requests[i].status]
                /\ UNCHANGED public_key_requests
           ELSE /\ Len(public_key_requests) < MaxRegs
                /\ public_key_requests' =
                       Append(public_key_requests, new_registration(factory_name, public_key))
                /\ resp' = [op |-> "register_public_key", req |-> req, code |-> 201,
                            error |-> "", request_id |-> Len(public_key_requests) + 1,
                            status |-> "pending"]

\* server.py check_registration_status: the row with the newest created_at
check_registration_status(public_key) ==
    LET req == [public_key |-> public_key]
        found == {i \in RequestIds : public_key_requests[i].public_key = public_key}
        latest == {i \in found : \A j \in found :
                       public_key_requests[j].created_at <= public_key_requests[i].created_at}
    IN  /\ UNCHANGED <<tables, now, inflight, offline_queue>>
        /\ IF public_key = NoKey
           THEN resp' = [op |-> "check_registration_status", req |-> req, code |-> 400,
                         error |-> "public_key parameter required"]
           ELSE IF found = {}
           THEN resp' = [op |-> "check_registration_status", req |-> req, code |-> 404,
                         error |-> "Public key not found"]
           ELSE \E i \in latest :
                   resp' = [op |-> "check_registration_status", req |-> req, code |-> 200,
                            error |-> "", request_id |-> i,
                            view |-> public_key_requests[i]]

\* a plausible slip: the UPDATE decides only requests that are still pending
\* (WHERE id = %s AND status = 'pending')
set_status_pending_only(request_id, status, actor) ==
    IF public_key_requests[request_id].status = "pending"
    THEN [public_key_requests EXCEPT ![request_id] =
             [@ EXCEPT !.status = status, !.approved_at = Some(now), !.approved_by = Some(actor)]]
    ELSE public_key_requests

\* the UPDATE of approve and deny (server.py:436-441, 482-487)
set_status(request_id, status, actor) ==
    [public_key_requests EXCEPT ![request_id] =
        [@ EXCEPT !.status = status, !.approved_at = Some(now), !.approved_by = Some(actor)]]

\* server.py approve_registration_request
approve_registration_request(request_id, approved_by) ==
    LET req == [request_id |-> request_id]
    IN  /\ UNCHANGED <<serials, batch_uploads, batch_chunks, now, inflight, offline_queue>>
        /\ IF request_id \notin RequestIds
           THEN /\ resp' = [op |-> "approve_request", req |-> req, code |-> 404,
                            error |-> "Request not found"]
                /\ UNCHANGED public_key_requests
           ELSE /\ public_key_requests' = set_status(request_id, "approved", approved_by)
                /\ resp' = [op |-> "approve_request", req |-> req, code |-> 200, error |-> ""]

\* server.py deny_registration_request
deny_registration_request(request_id, denied_by) ==
    LET req == [request_id |-> request_id]
    IN  /\ UNCHANGED <<serials, batch_uploads, batch_chunks, now, inflight, offline_queue>>
        /\ IF request_id \notin RequestIds
           THEN /\ resp' = [op |-> "deny_request", req |-> req, code |-> 404,
                            error |-> "Request not found"]
                /\ UNCHANGED public_key_requests
           ELSE /\ public_key_requests' = set_status(request_id, "denied", denied_by)
                /\ resp' = [op |-> "deny_request", req |-> req, code |-> 200, error |-> ""]

\* a plausible slip: revoke resets the status and keeps the approval columns
revoked_row_status_only(row) == [row EXCEPT !.status = "pending"]

\* the UPDATE of revoke (server.py:528-533): the row after the update
revoked_row(row) == [row EXCEPT !.status = "pending", !.approved_at = None, !.approved_by = None]

\* a plausible slip: the WHERE clause of revoke forgets AND status = 'approved'
revoke_matches_any_status(request_id) == request_id \in RequestIds

\* the WHERE clause of revoke (server.py:531)
revoke_matches(request_id) ==
    /\ request_id \in RequestIds
    /\ public_key_requests[request_id].status = "approved"

\* server.py revoke_registration_request
revoke_registration_request(request_id, revoked_by) ==
    LET req == [request_id |-> request_id]
    IN  /\ UNCHANGED <<serials, batch_uploads, batch_chunks, now, inflight, offline_queue>>
        /\ IF ~revoke_matches(request_id)
           THEN /\ resp' = [op |-> "revoke_request", req |-> req, code |-> 404,
                            error |-> "Request not found or not approved"]
                /\ UNCHANGED public_key_requests
           ELSE /\ public_key_requests' =
                       [public_key_requests EXCEPT ![request_id] = revoked_row(@)]
                /\ resp' = [op |-> "revoke_request", req |-> req, code |-> 200, error |-> ""]

(***************************************************************************)
(* Uploads.  A request is its headers and its file:                        *)
(*   [signature, timestamp, factory_id, file, batch_id, test_run_count,    *)
(*    chunk_index, total_chunks]                                           *)
(* timestamp, test_run_count, chunk_index, total_chunks: None (header      *)
(* absent) or Some(n); factory_id, batch_id: "" when absent; file:         *)
(* [present, decodable, lines], lines the CSV rows, header row first, each *)
(* row a sequence of fields.                                               *)
(***************************************************************************)
CsvFile(lines) == [present |-> TRUE, decodable |-> TRUE, lines |-> lines]
NoFile == [present |-> FALSE, decodable |-> TRUE, lines |-> <<>>]

K1S == <<"K", "1", "S", "-">>

\* a plausible slip: the bound itself counts as expired
request_expired_inclusive(current_time, timestamp) ==
    LET d == current_time - timestamp
    IN  (IF d < 0 THEN -d ELSE d) >= ReplayWindow

\* server.py:212  the replay window test
request_expired(current_time, timestamp) ==
    LET d == current_time - timestamp
    IN  (IF d < 0 THEN -d ELSE d) > ReplayWindow

\* server.py:241, 615, 697  len(row) < 2
row_too_short(row) == Len(row) < 2

\* a plausible slip: the device id is upper-cased as verify_serial does with sn
parse_row_upper(row) ==
    IF row_too_short(row) THEN None
    ELSE LET device_id == upper(strip(row[1]))
             wwyy == strip(row[2])
             production_date == convert_wwyy_to_date(wwyy)
         IN  IF IsNone(production_date) THEN None
             ELSE Some(<<K1S \o device_id, The(production_date)>>)

\* server.py:245-255: Some(<<serial, production_date>>) of a row that passes
\* row validation, None of a row the loop skips
parse_row(row) ==
    IF row_too_short(row) THEN None
    ELSE LET device_id == strip(row[1])
             wwyy == strip(row[2])
             production_date == convert_wwyy_to_date(wwyy)
         IN  IF IsNone(production_date) THEN None
             ELSE Some(<<K1S \o device_id, The(production_date)>>)

\* csv.reader(...) after next(reader, None): the data rows
data_rows(file) == IF file.lines = <<>> THEN <<>> ELSE Tail(file.lines)

\* the store refuses a serial_number longer than VARCHAR(20) (db.py:40)
fits_serial_number(serial) == Len(serial) <= SerialNumberMaxLen

\* a plausible slip: ON CONFLICT (serial_number) DO UPDATE, the last writer wins
insert_on_conflict_do_update(table, row) ==
    {r \in table : r.serial_number # row.serial_number} \cup {row}

\* INSERT INTO serials ... ON CONFLICT DO NOTHING
insert_on_conflict_do_nothing(table, row) ==
    IF \E r \in table : r.serial_number = row.serial_number THEN table
    ELSE table \cup {row}

serial_row(serial, production_date, provenance, batch_id, chunk_index) ==
    [serial_number |-> serial, production_date |-> production_date,
     provenance |-> provenance, batch_id |-> batch_id, chunk_index |-> chunk_index]

\* a plausible slip: the counter follows cursor.rowcount, so a row that the
\* ON CONFLICT clause dropped is not counted
added_after_execute_rowcount(added_count, table, serial) ==
    IF \E r \in table : r.serial_number = serial THEN added_count ELSE added_count + 1

\* server.py:262  added_count += 1 after every execute that did not raise
added_after_execute(added_count, table, serial) == added_count + 1

\* server.py:240-264, the row loop of add_serials over one transaction:
\* st = [table, aborted, added_count].  An INSERT the store refuses raises; the
\* except of line 263 swallows it, the transaction stays aborted and every later
\* execute raises too
RECURSIVE add_serials_loop(_, _, _)
add_serials_loop(rows, factory_alias, st) ==
    IF rows = <<>> THEN st
    ELSE LET parsed == parse_row(Head(rows))
             next == IF IsNone(parsed) THEN st
                     ELSE IF st.aborted THEN st
                     ELSE IF ~fits_serial_number(The(parsed)[1])
                          THEN [st EXCEPT !.aborted = TRUE]
                     ELSE [st EXCEPT
                             !.table = insert_on_conflict_do_nothing(@,
                                 serial_row(The(parsed)[1], The(parsed)[2], factory_alias, None, None)),
                             !.added_count = added_after_execute(@, st.table, The(parsed)[1])]
         IN  add_serials_loop(Tail(rows), factory_alias, next)

\* conn.commit() of a transaction: an aborted one is rolled back
commit(before, st) == IF st.aborted THEN before ELSE st.table

UploadOps == {"add_serials", "add_batch_serials", "add_chunk_serials"}
UploadResp(op, req, code, error) == [op |-> op, req |-> req, code |-> code, error |-> error]

\* add_serials with the replay window checked after the signature
add_serials_verify_before_window(req) ==
    LET csv_hash == compute_file_hash(req.file)
    IN  /\ UNCHANGED <<public_key_requests, batch_uploads, batch_chunks, now, inflight, offline_queue>>
        /\ IF req.signature = NoSignature \/ IsNone(req.timestamp)
           THEN /\ resp' = UploadResp("add_serials", req, 403, "Missing authentication headers")
                /\ UNCHANGED serials
           ELSE IF req.factory_id = ""
           THEN /\ resp' = UploadResp("add_serials", req, 400, "Missing factory ID header")
                /\ UNCHANGED serials
           ELSE IF ~req.file.present
           THEN /\ resp' = UploadResp("add_serials", req, 400, "No file uploaded")
                /\ UNCHANGED serials
           ELSE \E auth \in verify_signature_with_factory_key(
                               req.signature, The(req.timestamp), csv_hash, req.factory_id) :
                   IF ~auth[1]
                   THEN /\ resp' = UploadResp("add_serials", req, 403, "Unauthorized")
                        /\ UNCHANGED serials
                   ELSE IF request_expired(now, The(req.timestamp))
                   THEN /\ resp' = UploadResp("add_serials", req, 403, "Request expired")
                        /\ UNCHANGED serials
                   ELSE IF ~req.file.decodable
                   THEN /\ resp' = UploadResp("add_serials", req, 500, "Internal Server Error")
                        /\ UNCHANGED serials
                   ELSE LET st == add_serials_loop(data_rows(req.file), The(auth[2]),
                                       [table |-> serials, aborted |-> FALSE, added_count |-> 0])
                        IN  /\ serials' = commit(serials, st)
                            /\ resp' = [op |-> "add_serials", req |-> req, code |-> 200,
                                        error |-> "", added_count |-> st.added_count]

\* server.py add_serials
add_serials(req) ==
    LET csv_hash == compute_file_hash(req.file)
    IN  /\ UNCHANGED <<public_key_requests, batch_uploads, batch_chunks, now, inflight, offline_queue>>
        /\ IF req.signature = NoSignature \/ IsNone(req.timestamp)
           THEN /\ resp' = UploadResp("add_serials", req, 403, "Missing authentication headers")
                /\ UNCHANGED serials
           ELSE IF req.factory_id = ""
           THEN /\ resp' = UploadResp("add_serials", req, 400, "Missing factory ID header")
                /\ UNCHANGED serials
           ELSE IF request_expired(now, The(req.timestamp))
           THEN /\ resp' = UploadResp("add_serials", req, 403, "Request expired")
                /\ UNCHANGED serials
           ELSE IF ~req.file.present
           THEN /\ resp' = UploadResp("add_serials", req, 400, "No file uploaded")
                /\ UNCHANGED serials
           ELSE \E auth \in verify_signature_with_factory_key(
                               req.signature, The(req.timestamp), csv_hash, req.factory_id) :
                   IF ~auth[1]
                   THEN /\ resp' = UploadResp("add_serials", req, 403, "Unauthorized")
                        /\ UNCHANGED serials
                   ELSE IF ~req.file.decodable
                   THEN /\ resp' = UploadResp("add_serials", req, 500, "Internal Server Error")
                        /\ UNCHANGED serials
                   ELSE LET st == add_serials_loop(data_rows(req.file), The(auth[2]),
                                       [table |-> serials, aborted |-> FALSE, added_count |-> 0])
                        IN  /\ serials' = commit(serials, st)
                            /\ resp' = [op |-> "add_serials", req |-> req, code |-> 200,
                                        error |-> "", added_count |-> st.added_count]

\* server.py:613-625, 695-707: the rows that pass row validation, in order
RECURSIVE valid_rows(_)
valid_rows(rows) ==
    IF rows = <<>> THEN <<>>
    ELSE LET parsed == parse_row(Head(rows))
         IN  (IF IsNone(parsed) THEN <<>> ELSE <<The(parsed)>>) \o valid_rows(Tail(rows))

\* server.py:628-632, 710-714: the insert loop of a batch or chunk upload;
\* st = [table, aborted]: the first INSERT the store refuses raises out of the loop
RECURSIVE insert_all(_, _, _, _, _)
insert_all(rows, provenance, batch_id, chunk_index, st) ==
    IF rows = <<>> \/ st.aborted THEN st
    ELSE insert_all(Tail(rows), provenance, batch_id, chunk_index,
             IF ~fits_serial_number(Head(rows)[1]) THEN [st EXCEPT !.aborted = TRUE]
             ELSE [st EXCEPT !.table = insert_on_conflict_do_nothing(@,
                      serial_row(Head(rows)[1], Head(rows)[2], provenance, batch_id, chunk_index))])

\* crypto_utils.py store_batch_metadata: the batch_uploads table after the
\* upsert, which the function commits itself
store_batch_metadata(batch_id, metadata) ==
    IF \E b \in batch_uploads : b.id = batch_id
    THEN {IF b.id = batch_id
          THEN [b EXCEPT !.metadata = metadata,
                         !.test_run_count = metadata.test_run_count,
                         !.total_serials = metadata.total_serials]
          ELSE b : b \in batch_uploads}
    ELSE batch_uploads \cup
            {[id |-> batch_id, factory_id |-> metadata.factory_id,
              test_run_count |-> metadata.test_run_count,
              total_serials |-> metadata.total_serials, status |-> "processing",
              metadata |-> metadata, completed_at |-> None]}

\* a plausible slip: the UPDATE marks the batch completed and leaves the count
\* that the metadata wrote
complete_batch_status_only(uploads, batch_id, total_serials) ==
    {IF b.id = batch_id
     THEN [b EXCEPT !.status = "completed", !.completed_at = Some(now)]
     ELSE b : b \in uploads}

\* server.py:635-638  UPDATE batch_uploads SET total_serials, status, completed_at
complete_batch(uploads, batch_id, total_serials) ==
    {IF b.id = batch_id
     THEN [b EXCEPT !.total_serials = total_serials, !.status = "completed",
                    !.completed_at = Some(now)]
     ELSE b : b \in uploads}

\* server.py add_batch_serials
add_batch_serials(req) ==
    LET csv_hash == compute_file_hash(req.file)
        metadata == [factory_id |-> req.factory_id,
                     test_run_count |-> IF IsNone(req.test_run_count) THEN 0
                                        ELSE The(req.test_run_count),
                     total_serials |-> 0, batch_id |-> req.batch_id]
    IN  /\ UNCHANGED <<public_key_requests, batch_chunks, now, inflight, offline_queue>>
        /\ IF \/ req.signature = NoSignature \/ IsNone(req.timestamp)
              \/ req.factory_id = "" \/ req.batch_id = ""
           THEN /\ resp' = UploadResp("add_batch_serials", req, 400, "Missing required headers")
                /\ UNCHANGED <<serials, batch_uploads>>
           ELSE IF request_expired(now, The(req.timestamp))
           THEN /\ resp' = UploadResp("add_batch_serials", req, 403, "Request expired")
                /\ UNCHANGED <<serials, batch_uploads>>
           ELSE IF ~req.file.present
           THEN /\ resp' = UploadResp("add_batch_serials", req, 400, "No file uploaded")
                /\ UNCHANGED <<serials, batch_uploads>>
           ELSE \E auth \in verify_signature_with_factory_key(
                               req.signature, The(req.timestamp), csv_hash, req.factory_id) :
                   IF ~auth[1]
                   THEN /\ resp' = UploadResp("add_batch_serials", req, 403, "Unauthorized")
                        /\ UNCHANGED <<serials, batch_uploads>>
                   ELSE LET stored == store_batch_metadata(req.batch_id, metadata)
                            rows == valid_rows(data_rows(req.file))
                            st == insert_all(rows, The(auth[2]), Some(req.batch_id), None,
                                             [table |-> serials, aborted |-> FALSE])
                        IN  IF ~req.file.decodable \/ st.aborted
                            THEN /\ resp' = UploadResp("add_batch_serials", req, 500,
                                                       "Internal Server Error")
                                 /\ batch_uploads' = stored
                                 /\ UNCHANGED serials
                            ELSE /\ serials' = st.table
                                 /\ batch_uploads' = complete_batch(stored, req.batch_id, Len(rows))
                                 /\ resp' = [op |-> "add_batch_serials", req |-> req,
                                             code |-> 200, error |-> "",
                                             uploaded_count |-> Len(rows)]

\* a plausible slip: the INSERT without its ON CONFLICT clause on a table
\* without the UNIQUE constraint
record_chunk_insert_only(batch_id, chunk_index, total_chunks, serial_count) ==
    batch_chunks \cup
        {[batch_id |-> batch_id, chunk_index |-> chunk_index,
          total_chunks |-> total_chunks, serial_count |-> serial_count,
          status |-> "uploaded"]}

\* server.py:717-723  the batch_chunks upsert
record_chunk(batch_id, chunk_index, total_chunks, serial_count) ==
    IF \E c \in batch_chunks : c.batch_id = batch_id /\ c.chunk_index = chunk_index
    THEN {IF c.batch_id = batch_id /\ c.chunk_index = chunk_index
          THEN [c EXCEPT !.serial_count = serial_count, !.status = "uploaded"]
          ELSE c : c \in batch_chunks}
    ELSE batch_chunks \cup
            {[batch_id |-> batch_id, chunk_index |-> chunk_index,
              total_chunks |-> total_chunks, serial_count |-> serial_count,
              status |-> "uploaded"]}

\* a plausible slip: the chunk that makes the batch whole marks it completed
add_chunk_serials_completing_batch(req) ==
    LET csv_hash == compute_file_hash(req.file)
    IN  /\ UNCHANGED <<public_key_requests, now, inflight, offline_queue>>
        /\ IF \/ req.signature = NoSignature \/ IsNone(req.timestamp)
              \/ req.factory_id = "" \/ req.batch_id = ""
              \/ IsNone(req.chunk_index) \/ IsNone(req.total_chunks)
           THEN /\ resp' = UploadResp("add_chunk_serials", req, 400, "Missing required headers")
                /\ UNCHANGED <<serials, batch_chunks>>
           ELSE IF request_expired(now, The(req.timestamp))
           THEN /\ resp' = UploadResp("add_chunk_serials", req, 403, "Request expired")
                /\ UNCHANGED <<serials, batch_chunks>>
           ELSE IF ~req.file.present
           THEN /\ resp' = UploadResp("add_chunk_serials", req, 400, "No file uploaded")
                /\ UNCHANGED <<serials, batch_chunks>>
           ELSE \E auth \in verify_signature_with_factory_key(
                               req.signature, The(req.timestamp), csv_hash, req.factory_id) :
                   IF ~auth[1]
                   THEN /\ resp' = UploadResp("add_chunk_serials", req, 403, "Unauthorized")
                        /\ UNCHANGED <<serials, batch_chunks>>
                   ELSE LET rows == valid_rows(data_rows(req.file))
                            st == insert_all(rows, The(auth[2]), Some(req.batch_id),
                                             req.chunk_index,
                                             [table |-> serials, aborted |-> FALSE])
                        IN  IF ~req.file.decodable \/ st.aborted
                            THEN /\ resp' = UploadResp("add_chunk_serials", req, 500,
                                                       "Internal Server Error")
                                 /\ UNCHANGED <<serials, batch_chunks>>
                            ELSE /\ serials' = st.table
                                 /\ batch_chunks' = record_chunk(req.batch_id,
                                        The(req.chunk_index), The(req.total_chunks), Len(rows))
                                 /\ resp' = [op |-> "add_chunk_serials", req |-> req,
                                             code |-> 200, error |-> "",
                                             uploaded_count |-> Len(rows)]
        /\ batch_uploads' =
              IF /\ ~IsNone(req.total_chunks)
                 /\ \A c \in 0..(The(req.total_chunks) - 1) :
                       \E row \in batch_chunks' : row.batch_id = req.batch_id /\ row.chunk_index = c
              THEN complete_batch(batch_uploads, req.batch_id, Cardinality(serials'))
              ELSE batch_uploads

\* server.py add_chunk_serials
add_chunk_serials(req) ==
    LET csv_hash == compute_file_hash(req.file)
    IN  /\ UNCHANGED <<public_key_requests, batch_uploads, now, inflight, offline_queue>>
        /\ IF \/ req.signature = NoSignature \/ IsNone(req.timestamp)
              \/ req.factory_id = "" \/ req.batch_id = ""
              \/ IsNone(req.chunk_index) \/ IsNone(req.total_chunks)
           THEN /\ resp' = UploadResp("add_chunk_serials", req, 400, "Missing required headers")
                /\ UNCHANGED <<serials, batch_chunks>>
           ELSE IF request_expired(now, The(req.timestamp))
           THEN /\ resp' = UploadResp("add_chunk_serials", req, 403, "Request expired")
                /\ UNCHANGED <<serials, batch_chunks>>
           ELSE IF ~req.file.present
           THEN /\ resp' = UploadResp("add_chunk_serials", req, 400, "No file uploaded")
                /\ UNCHANGED <<serials, batch_chunks>>
           ELSE \E auth \in verify_signature_with_factory_key(
                               req.signature, The(req.timestamp), csv_hash, req.factory_id) :
                   IF ~auth[1]
                   THEN /\ resp' = UploadResp("add_chunk_serials", req, 403, "Unauthorized")
                        /\ UNCHANGED <<serials, batch_chunks>>
                   ELSE LET rows == valid_rows(data_rows(req.file))
                            st == insert_all(rows, The(auth[2]), Some(req.batch_id),
                                             req.chunk_index,
                                             [table |-> serials, aborted |-> FALSE])
                        IN  IF ~req.file.decodable \/ st.aborted
                            THEN /\ resp' = UploadResp("add_chunk_serials", req, 500,
                                                       "Internal Server Error")
                                 /\ UNCHANGED <<serials, batch_chunks>>
                            ELSE /\ serials' = st.table
                                 /\ batch_chunks' = record_chunk(req.batch_id,
                                        The(req.chunk_index), The(req.total_chunks), Len(rows))
                                 /\ resp' = [op |-> "add_chunk_serials", req |-> req,
                                             code |-> 200, error |-> "",
                                             uploaded_count |-> Len(rows)]

\* server.py:37  SERIAL_PATTERN  ^K1S-[A-Z0-9]{1,10}$
SERIAL_PATTERN_match(serial) ==
    /\ Len(serial) > Len(K1S)
    /\ Len(serial) <= Len(K1S) + SerialPatternMaxId
    /\ SubSeq(serial, 1, Len(K1S)) = K1S
    /\ \A i \in (Len(K1S) + 1)..Len(serial) :
          serial[i] \in UpperChars \cup DigitChars

\* server.py:122  request.args.get("sn", "").strip().upper()
normalize_sn(sn) == upper(strip(sn))

\* server.py verify_serial
verify_serial(sn) ==
    LET serial == normalize_sn(sn)
        result == {r \in serials : r.serial_number = serial}
    IN  /\ UNCHANGED <<tables, now, inflight, offline_queue>>
        /\ IF ~SERIAL_PATTERN_match(serial)
           THEN resp' = [op |-> "verify", req |-> [sn |-> sn], code |-> 400,
                         error |-> "Invalid serial format"]
           ELSE IF result = {}
           THEN resp' = [op |-> "verify", req |-> [sn |-> sn], code |-> 404,
                         error |-> "Not Found"]
           ELSE \E r \in result :
                   resp' = [op |-> "verify", req |-> [sn |-> sn], code |-> 200, error |-> "",
                            status |-> "Authentic", serial_number |-> serial,
                            production_date |-> r.production_date,
                            provenance |-> r.provenance]

\* the step is the serving of upload request r by the endpoint that resp' names
ServedUpload(r) ==
    /\ resp'.op \in UploadOps
    /\ resp'.req = r
    /\ \/ resp'.op = "add_serials" /\ add_serials(r)
       \/ resp'.op = "add_batch_serials" /\ add_batch_serials(r)
       \/ resp'.op = "add_chunk_serials" /\ add_chunk_serials(r)

(***************************************************************************)
(* Inputs of the model.                                                    *)
(***************************************************************************)
FactoryNames == {"FA", "FB"}
Actors == {"admin", "ops"}
KeyA == KeyText("A", "pem")
KeyAb64 == KeyText("A", "b64")
KeyB == KeyText("B", "pem")
KeyJunk == KeyText("", "junk")
\* ids an admin request may name: every existing one and one that does not exist
AdminIds == 1..(Len(public_key_requests) + 1)

(***************************************************************************)
(* SpecRegistry: the key registry alone.                                   *)
(***************************************************************************)
RegistryKeys == {KeyA, KeyAb64, KeyB, KeyJunk, NoKey}

Register == \E f \in FactoryNames \cup {""}, k \in RegistryKeys : register_public_key(f, k)
CheckStatus == \E k \in RegistryKeys : check_registration_status(k)
Approve == \E id \in AdminIds, a \in Actors : approve_registration_request(id, a)
Deny == \E id \in AdminIds, a \in Actors : deny_registration_request(id, a)
Revoke == \E id \in AdminIds, a \in Actors : revoke_registration_request(id, a)

NextRegistry == \/ Register /\ NoTrack
                \/ CheckStatus /\ NoTrack
                \/ Approve /\ NoTrack
                \/ Deny /\ NoTrack
                \/ Revoke /\ NoTrack
SpecRegistry == Init /\ [][NextRegistry]_vars

ValidKeys == {KeyA, KeyAb64, KeyB}
RowsWithKey(rows, k) == {i \in DOMAIN rows : rows[i].public_key = k}

\* C1: registering a public key that the previous call registered (under the same
\* or another factory name) answers with the same request id and with the row's
\* current status, and leaves exactly one row for that key.  More generally every
\* accepted register call leaves exactly one row for its key, the one whose id it
\* returns, and a call for a key that is already there changes nothing.
C1_IdempotentRegistration ==
    [][\A f \in FactoryNames, k \in ValidKeys :
          (/\ resp'.op = "register_public_key"
           /\ resp'.req = [factory_name |-> f, public_key |-> k]
           /\ register_public_key(f, k)) =>
             /\ resp'.code \in {200, 201}
             /\ RowsWithKey(public_key_requests', k) = {resp'.request_id}
             /\ resp'.status = public_key_requests'[resp'.request_id].status
             /\ RowsWithKey(public_key_requests, k) # {} =>
                   /\ resp'.code = 200
                   /\ RowsWithKey(public_key_requests, k) = {resp'.request_id}
                   /\ public_key_requests' = public_key_requests
             /\ (/\ resp.op = "register_public_key"
                 /\ resp.code \in {200, 201}
                 /\ resp.req.public_key = k) =>
                   /\ resp'.code = 200
                   /\ resp'.request_id = resp.request_id
      ]_vars

\* C1 witness: a second registration of a key, under another factory name, after
\* the row was approved: the answer carries the old id and status approved
C1_Witness ==
    /\ resp.op = "register_public_key"
    /\ resp.code = 200
    /\ resp.status = "approved"
    /\ resp.req.factory_name # public_key_requests[resp.request_id].factory_name
    /\ Cardinality(RowsWithKey(public_key_requests, resp.req.public_key)) = 1

(***************************************************************************)
(* Upload inputs.                                                          *)
(***************************************************************************)
\* the header line of a CSV file, which every endpoint skips
HeaderRow == << <<"i", "d">>, <<"w", "w", "y", "y">> >>
\* week 40 of 2023
Wwyy4023 == <<"4", "0", "2", "3">>
\* one valid row: device A1 made in week 40 of 2023
FileA1 == CsvFile(<<HeaderRow, << <<"A", "1">>, Wwyy4023 >> >>)

\* the headers and the file of an upload request, as the three endpoints read them
UploadRequest(signature, timestamp, factory_id, file, batch_id, runs, chunk, chunks) ==
    [signature |-> signature, timestamp |-> timestamp, factory_id |-> factory_id,
     file |-> file, batch_id |-> batch_id, test_run_count |-> runs,
     chunk_index |-> chunk, total_chunks |-> chunks]

\* what a client does: sign f"{timestamp}{sha256(file)}"
Sign(scheme, key, timestamp, file) ==
    Signature(scheme, key, create_signature_message(timestamp, compute_file_hash(file)))

\* a plain upload as add_serials reads it (no batch headers)
PlainRequest(signature, timestamp, factory_id, file) ==
    UploadRequest(signature, Some(timestamp), factory_id, file, "", None, None, None)

(***************************************************************************)
(* SpecAuth: the registry together with add_serials.  Each request carries *)
(* a fresh timestamp and is signed with key pair A, with key pair B, with  *)
(* the shared HMAC secret, or not validly at all.                          *)
(***************************************************************************)
AuthRegistrations == {<<"FA", KeyA>>, <<"FA", KeyAb64>>, <<"FB", KeyB>>, <<"FB", KeyA>>}
AuthSignatures(timestamp, file) ==
    {Sign("ecdsa", "A", timestamp, file), Sign("ecdsa", "B", timestamp, file),
     Sign("hmac", HmacSecret, timestamp, file), GarbageSignature}
AuthRequests ==
    {PlainRequest(sig, now, f, FileA1) : sig \in AuthSignatures(now, FileA1), f \in FactoryNames}

AuthRegister == \E fk \in AuthRegistrations : register_public_key(fk[1], fk[2])
AuthApprove == \E id \in AdminIds : approve_registration_request(id, "admin")
AuthRevoke == \E id \in AdminIds : revoke_registration_request(id, "admin")
AuthUpload == \E r \in AuthRequests : add_serials(r)

NextAuth == \/ AuthRegister /\ Track
            \/ AuthApprove /\ Track
            \/ AuthRevoke /\ Track
            \/ AuthUpload /\ Track
SpecAuth == Init /\ [][NextAuth]_vars

\* the approved registrations of factory name f that hold key pair mat
ApprovedWith(f, mat) ==
    {i \in RequestIds : /\ public_key_requests[i].factory_name = f
                        /\ public_key_requests[i].status = "approved"
                        /\ public_key_requests[i].public_key.mat = mat}

C5_ProvenanceBoundToKey ==
    [][\A r \in AuthRequests :
          (resp'.op = "add_serials" /\ resp'.req = r /\ add_serials(r)) =>
             \A s \in serials' \ serials :
                /\ s.provenance = r.factory_id
                /\ \E i \in RequestIds :
                      /\ public_key_requests[i].status = "approved"
                      /\ public_key_requests[i].factory_name = s.provenance
                /\ r.signature.scheme = "ecdsa" =>
                      ApprovedWith(s.provenance, r.signature.key) # {}
      ]_vars

\* C5 witness: key A is approved for FA only, key B for FB; an upload that names
\* FB in its header and is signed with key A was answered Unauthorized and no row
\* with provenance FB exists
C5_Witness ==
    /\ resp.op = "add_serials"
    /\ resp.code = 403
    /\ resp.error = "Unauthorized"
    /\ resp.req.factory_id = "FB"
    /\ resp.req.signature = Sign("ecdsa", "A", The(resp.req.timestamp), resp.req.file)
    /\ ApprovedWith("FA", "A") # {}
    /\ ApprovedWith("FB", "B") # {}
    /\ ApprovedWith("FB", "A") = {}
    /\ \E s \in serials : s.provenance = "FA"
    /\ \A s \in serials : s.provenance # "FB"

(***************************************************************************)
(* SpecWindow: the three upload endpoints under a moving clock.  One       *)
(* factory, FA with key A; every request carries all headers and a file,   *)
(* a timestamp at a chosen distance from the server's clock, and a         *)
(* signature over that timestamp (or no valid signature).                  *)
(***************************************************************************)
WindowOffsets == {-301, -300, -299, 0, 299, 300, 301}
\* a request with every header any of the three endpoints reads
FullRequest(signature, timestamp, factory_id, file) ==
    UploadRequest(signature, Some(timestamp), factory_id, file, "B1", Some(1), Some(0), Some(1))
WindowRequests ==
    UNION {{FullRequest(sig, now + d, "FA", FileA1) :
               sig \in {Sign("ecdsa", "A", now + d, FileA1), GarbageSignature}} :
           d \in WindowOffsets}

WindowRegister == register_public_key("FA", KeyA)
WindowApprove == \E id \in AdminIds : approve_registration_request(id, "admin")
WindowAddSerials == \E r \in WindowRequests : add_serials(r)
WindowAddBatch == \E r \in WindowRequests : add_batch_serials(r)
WindowAddChunk == \E r \in WindowRequests : add_chunk_serials(r)

NextWindow == \/ WindowRegister /\ NoTrack
              \/ WindowApprove /\ NoTrack
              \/ WindowAddSerials /\ NoTrack
              \/ WindowAddBatch /\ NoTrack
              \/ WindowAddChunk /\ NoTrack
              \/ Tick
SpecWindow == Init /\ [][NextWindow]_vars

\* C3: an upload request that carries every header and a file is answered
\* 403 "Request expired", with no table changed, exactly when its timestamp lies
\* more than 300 seconds before or after the server's clock; this is so on all
\* three endpoints.  So now-301 and now+301 are expired, now-300, now-299, now+299
\* and now+300 go on to the signature check.
C3_ReplayWindow ==
    [][\A r \in WindowRequests :
          ServedUpload(r) =>
             /\ (resp'.code = 403 /\ resp'.error = "Request expired")
                   <=> (\/ The(r.timestamp) < now - 300
                        \/ The(r.timestamp) > now + 300)
             /\ resp'.error = "Request expired" => UNCHANGED tables
             /\ resp'.error # "Request expired" => resp'.error \in {"", "Unauthorized"}
      ]_vars

\* C3 witness: a chunk upload stamped exactly 300 seconds ahead of the clock was
\* accepted and its row stored
C3_Witness ==
    /\ resp.op = "add_chunk_serials"
    /\ resp.code = 200
    /\ The(resp.req.timestamp) = now + 300
    /\ serials # {}
    /\ batch_chunks # {}

(***************************************************************************)
(* SpecUnapproved: the three upload endpoints against a registry whose     *)
(* rows are registered, approved, denied and revoked.  Every upload names  *)
(* factory FA and carries a fresh timestamp.                               *)
(***************************************************************************)
UnapprovedRegistrations == {<<"FA", KeyA>>, <<"FA", KeyAb64>>, <<"FB", KeyB>>}
UnapprovedRequests ==
    {FullRequest(sig, now, "FA", FileA1) :
        sig \in {Sign("ecdsa", "A", now, FileA1), Sign("ecdsa", "B", now, FileA1),
                 Sign("hmac", HmacSecret, now, FileA1), GarbageSignature}}

UnapprovedRegister == \E fk \in UnapprovedRegistrations : register_public_key(fk[1], fk[2])
UnapprovedApprove == \E id \in AdminIds : approve_registration_request(id, "admin")
UnapprovedDeny == \E id \in AdminIds : deny_registration_request(id, "admin")
UnapprovedRevoke == \E id \in AdminIds : revoke_registration_request(id, "admin")
UnapprovedAddSerials == \E r \in UnapprovedRequests : add_serials(r)
UnapprovedAddBatch == \E r \in UnapprovedRequests : add_batch_serials(r)
UnapprovedAddChunk == \E r \in UnapprovedRequests : add_chunk_serials(r)

NextUnapproved == \/ UnapprovedRegister /\ NoTrack
                  \/ UnapprovedApprove /\ NoTrack
                  \/ UnapprovedDeny /\ NoTrack
                  \/ UnapprovedRevoke /\ NoTrack
                  \/ UnapprovedAddSerials /\ NoTrack
                  \/ UnapprovedAddBatch /\ NoTrack
                  \/ UnapprovedAddChunk /\ NoTrack
SpecUnapproved == Init /\ [][NextUnapproved]_vars

\* the registrations of factory name f, and those among them that are approved
RegistrationsOf(f) == {i \in RequestIds : public_key_requests[i].factory_name = f}
ApprovedOf(f) == {i \in RegistrationsOf(f) : public_key_requests[i].status = "approved"}

\* C4: while no registration of the factory name in the X-Factory-ID header is
\* approved, every upload on every endpoint is answered 403 Unauthorized, whatever
\* its signature (a valid ECDSA signature of a registered key, a valid HMAC of the
\* shared secret), and no serial, batch or chunk row is written.
C4_NoApprovedKeyNoUpload ==
    [][\A r \in UnapprovedRequests :
          (ApprovedOf(r.factory_id) = {} /\ ServedUpload(r)) =>
             /\ resp'.code = 403
             /\ resp'.error = "Unauthorized"
             /\ UNCHANGED tables
      ]_vars

\* C4 witness: FA has a pending and a denied registration and none approved, FB
\* has an approved one; a batch upload for FA with a valid HMAC signature was
\* answered Unauthorized and nothing is stored
C4_Witness ==
    /\ resp.op = "add_batch_serials"
    /\ resp.code = 403
    /\ resp.error = "Unauthorized"
    /\ resp.req.signature = Sign("hmac", HmacSecret, The(resp.req.timestamp), resp.req.file)
    /\ ApprovedOf("FA") = {}
    /\ \E i \in RegistrationsOf("FA") : public_key_requests[i].status = "pending"
    /\ \E i \in RegistrationsOf("FA") : public_key_requests[i].status = "denied"
    /\ serials = {}
    /\ batch_uploads = {}
    /\ batch_chunks = {}

(***************************************************************************)
(* SpecIngest: factory FA registers key A, is approved, and uploads files  *)
(* on the three endpoints; anyone looks serials up.                        *)
(***************************************************************************)
\* a device id of 17 characters: "K1S-" and it make 21
LongId == <<"A", "B", "C", "D", "E", "F", "G", "H", "I", "J", "K", "L", "M", "N", "O", "P", "Q">>
\* one valid row with a device id in lower case, made in week 0 of 2023 (the
\* days of 2023 before its first Monday: the week's Monday is 26 December 2022)
FileLower == CsvFile(<<HeaderRow, << <<"a", "1">>, <<"0", "0", "2", "3">> >> >>)
\* valid rows between a short row and rows with week codes that do not convert:
\* device A1 again with another week (week 1 of 2024, written with blanks),
\* week 99, letters, and device B2 with the three-digit code 123
FileMixed == CsvFile(<<HeaderRow,
                       << <<"B", "2">> >>,
                       << <<" ", "A", "1", " ">>, <<" ", "0", "1", "2", "4">> >>,
                       << <<"C", "3">>, <<"9", "9", "9", "9">> >>,
                       << <<"D", "4">>, <<"a", "b", "c", "d">> >>,
                       << <<"B", "2">>, <<"1", "2", "3">> >> >>)
\* a valid row, a short row, and a row that passes row validation but whose
\* serial number does not fit the column
FileLong == CsvFile(<<HeaderRow, << <<"A", "1">>, Wwyy4023 >>, << <<"B", "2">> >>,
                      << LongId, Wwyy4023 >> >>)
IngestFiles == {FileA1, FileLower, FileMixed, FileLong}
IngestRequests == {FullRequest(Sign("ecdsa", "A", now, f), now, "FA", f) : f \in IngestFiles}
IngestLookups == {K1S \o <<"A", "1">>, K1S \o <<"a", "1">>, K1S \o LongId,
                  <<" ", "k", "1", "s", "-", "a", "1">>}

IngestRegister == register_public_key("FA", KeyA)
IngestApprove == \E id \in AdminIds : approve_registration_request(id, "admin")
IngestAddSerials == \E r \in IngestRequests : add_serials(r)
IngestAddBatch == \E r \in IngestRequests : add_batch_serials(r)
IngestAddChunk == \E r \in IngestRequests : add_chunk_serials(r)
IngestVerify == \E sn \in IngestLookups : verify_serial(sn)

NextIngest == \/ IngestRegister /\ TrackRepeat
              \/ IngestApprove /\ TrackRepeat
              \/ IngestAddSerials /\ TrackRepeat
              \/ IngestAddBatch /\ TrackRepeat
              \/ IngestAddChunk /\ TrackRepeat
              \/ IngestVerify /\ TrackRepeat
SpecIngest == Init /\ [][NextIngest]_vars

\* the serial numbers of the rows of a file that pass row validation, and the
\* serial numbers stored in a table
ValidSerials(file) == {row[1] : row \in Range(valid_rows(data_rows(file)))}
SerialNumbers(table) == {s.serial_number : s \in table}
AllStored(file, table) == ValidSerials(file) \subseteq SerialNumbers(table)

\* C6: no step removes or alters a serial row and no two rows share a
\* serial_number; an accepted upload whose file holds no row that the store
\* refuses leaves every serial of its validated rows stored, adding rows for no
\* other serial; and an upload whose validated serials are all stored already (as
\* they are from its first delivery on, whatever happened since) is answered 200,
\* not an error, and leaves the serial table as it was.  An upload holding a row
\* that the store refuses changes no serial row on any delivery.
C6_IdempotentIngestion ==
    [][/\ serials \subseteq serials'
       /\ \A s1, s2 \in serials' : s1.serial_number = s2.serial_number => s1 = s2
       /\ \A r \in IngestRequests :
             ServedUpload(r) =>
                LET valid == ValidSerials(r.file)
                    refused == \E sn \in valid : ~fits_serial_number(sn)
                IN  /\ (resp'.code = 200 /\ ~refused) => valid \subseteq SerialNumbers(serials')
                    /\ SerialNumbers(serials') \subseteq SerialNumbers(serials) \cup valid
                    /\ (ApprovedOf(r.factory_id) # {} /\ valid \subseteq SerialNumbers(serials)) =>
                          /\ resp'.code = 200
                          /\ serials' = serials
                    /\ refused => serials' = serials
      ]_vars

\* C6 witness: the chunk upload of the mixed file was accepted twice in a row;
\* device A1 is stored with the date an earlier file gave it, not the one of
\* this file, and each serial has one row
C6_Witness ==
    /\ prev.op = "repeat"
    /\ resp.op = "add_chunk_serials"
    /\ resp.code = 200
    /\ resp.req.file = FileMixed
    /\ SerialNumbers(serials) = {K1S \o <<"A", "1">>, K1S \o <<"B", "2">>}
    /\ Cardinality(serials) = 2
    /\ \E s \in serials : /\ s.serial_number = K1S \o <<"A", "1">>
                          /\ s.production_date = [year |-> 2023, month |-> 10, day |-> 2]

\* the step serves again, by add_serials, the request that the response before
\* it had accepted, and every validated serial of the file is stored
RepeatedAddSerials ==
    /\ resp.op = "add_serials"
    /\ resp.code = 200
    /\ resp'.op = "add_serials"
    /\ resp'.req = resp.req
    /\ resp'.req \in IngestRequests
    /\ add_serials(resp'.req)
    /\ AllStored(resp.req.file, serials)

C8_RowProblemsNeverAbort ==
    [][\A r \in IngestRequests :
          (ApprovedOf(r.factory_id) # {} /\ ServedUpload(r)) =>
              /\ resp'.code = 200
              /\ AllStored(r.file, serials')
              /\ SerialNumbers(serials') \subseteq SerialNumbers(serials) \cup ValidSerials(r.file)
      ]_vars

\* date.weekday(), Monday = 0
weekday(d) == (days_before_year(d.year) + days_before_month(d.year, d.month) + d.day + 6) % 7

C10_IngestThenVerify ==
    [][\A sn \in IngestLookups :
          (/\ resp'.op = "verify"
           /\ resp'.req.sn = sn
           /\ verify_serial(sn)
           /\ sn \in SerialNumbers(serials)) =>
              /\ resp'.code = 200
              /\ \E s \in serials : /\ s.serial_number = sn
                                    /\ resp'.production_date = s.production_date
                                    /\ resp'.provenance = s.provenance
      ]_vars

(***************************************************************************)
(* SpecRegisterRace: register_public_key as the threaded server runs it.   *)
(* Each request has its own connection; the SELECT of line 300 and the     *)
(* INSERT and commit of lines 315-322 are two steps of a worker, and the   *)
(* steps of other requests may fall between them.  The table has no        *)
(* constraint on public_key (db.py:69-77), so the INSERT never conflicts.  *)
(***************************************************************************)
\* server.py:281-313: validation and the duplicate check of a request that
\* worker w starts
register_public_key_select(w, factory_name, public_key) ==
    LET req == [factory_name |-> factory_name, public_key |-> public_key]
        existing == existing_registrations(public_key)
    IN  /\ inflight[w] = Idle
        /\ UNCHANGED <<tables, now, offline_queue>>
        /\ IF factory_name = "" \/ public_key = NoKey
           THEN /\ resp' = [op |-> "register_public_key", req |-> req, code |-> 400,
                            error |-> "factory_name and public_key are required"]
                /\ UNCHANGED inflight
           ELSE IF ~validate_public_key_format(public_key)
           THEN /\ resp' = [op |-> "register_public_key", req |-> req, code |-> 400,
                            error |-> "Invalid public key format"]
                /\ UNCHANGED inflight
           ELSE IF existing # {}
           THEN /\ \E i \in existing :
                      resp' = [op |-> "register_public_key", req |-> req, code |-> 200,
                               error |-> "", request_id |-> i,
                               status |-> public_key_requests[i].status]
                /\ UNCHANGED inflight
           ELSE /\ inflight' = [inflight EXCEPT ![w] =
                                   [pc |-> "register_insert", factory_name |-> factory_name,
                                    public_key |-> public_key]]
                /\ UNCHANGED resp

\* server.py:315-330: the INSERT, the commit and the 201 response of the request
\* that worker w holds
register_public_key_insert(w) ==
    LET factory_name == inflight[w].factory_name
        public_key == inflight[w].public_key
    IN  /\ inflight[w].pc = "register_insert"
        /\ Len(public_key_requests) < MaxRegs
        /\ public_key_requests' =
               Append(public_key_requests, new_registration(factory_name, public_key))
        /\ resp' = [op |-> "register_public_key",
                    req |-> [factory_name |-> factory_name, public_key |-> public_key],
                    code |-> 201, error |-> "",
                    request_id |-> Len(public_key_requests) + 1, status |-> "pending"]
        /\ inflight' = [inflight EXCEPT ![w] = Idle]
        /\ UNCHANGED <<serials, batch_uploads, batch_chunks, now, offline_queue>>

RaceRegistrations == {<<"FA", KeyA>>, <<"FB", KeyA>>, <<"FB", KeyB>>, <<"FA", KeyJunk>>}

RaceSelect == \E w \in Workers, fk \in RaceRegistrations :
                 register_public_key_select(w, fk[1], fk[2])
RaceInsert == \E w \in Workers : register_public_key_insert(w)
RaceApprove == \E id \in AdminIds : approve_registration_request(id, "admin")
RaceDeny == \E id \in AdminIds : deny_registration_request(id, "admin")

NextRegisterRace == \/ RaceSelect /\ NoTrack
                    \/ RaceInsert /\ NoTrack
                    \/ RaceApprove /\ NoTrack
                    \/ RaceDeny /\ NoTrack
SpecRegisterRace == Init /\ [][NextRegisterRace]_vars

\* C11 as stated: under every interleaving of register requests, each a
\* read-existing step followed by an insert step, the registry holds at most one
\* row per public key in every reachable state, whatever the statuses of the rows.
C11_OneRegistrationPerKey ==
    \A k \in ValidKeys : Cardinality(RowsWithKey(public_key_requests, k)) <= 1

(***************************************************************************)
(* The admin decisions, checked on SpecRegistry.                           *)
(***************************************************************************)
\* row `row` decided: its status, and the time and the actor of the decision
Decided(row, status, actor) ==
    [row EXCEPT !.status = status, !.approved_at = Some(now), !.approved_by = Some(actor)]

\* C12: approve and deny of an id that no row has answer 404 and change nothing;
\* of an existing row they answer 200 whatever the row's status is (pending,
\* approved or denied), set the status to approved, respectively denied, and
\* overwrite approved_at and approved_by with the time and the actor of this
\* call, leaving every other row and column as it was.
C12_ApproveDenyLastWriteWins ==
    [][\A id \in AdminIds, a \in Actors :
          /\ (/\ resp'.op = "approve_request"
              /\ resp'.req.request_id = id
              /\ approve_registration_request(id, a)) =>
                IF id \in RequestIds
                THEN /\ resp'.code = 200
                     /\ public_key_requests' =
                           [public_key_requests EXCEPT ![id] = Decided(@, "approved", a)]
                ELSE /\ resp'.code = 404
                     /\ UNCHANGED tables
          /\ (/\ resp'.op = "deny_request"
              /\ resp'.req.request_id = id
              /\ deny_registration_request(id, a)) =>
                IF id \in RequestIds
                THEN /\ resp'.code = 200
                     /\ public_key_requests' =
                           [public_key_requests EXCEPT ![id] = Decided(@, "denied", a)]
                ELSE /\ resp'.code = 404
                     /\ UNCHANGED tables
      ]_vars

\* C12 witness: two rows exist, the first is denied by "ops" and the second was
\* then approved by "admin", the call the last response answers
C12_Witness ==
    /\ Len(public_key_requests) = 2
    /\ public_key_requests[1].status = "denied"
    /\ public_key_requests[1].approved_by = Some("ops")
    /\ resp.op = "approve_request"
    /\ resp.code = 200
    /\ resp.req.request_id = 2
    /\ public_key_requests[2].status = "approved"
    /\ public_key_requests[2].approved_by = Some("admin")
    /\ public_key_requests[2].approved_at = Some(now)

\* C13: revoke of a row whose status is approved answers 200 and resets that row
\* to pending with approved_at and approved_by NULL; revoke of a pending or denied
\* row, or of an id that no row has, answers 404 and leaves every row, its
\* status, approved_at and approved_by included, as it was.
C13_RevokeOnlyApproved ==
    [][\A id \in AdminIds, a \in Actors :
          (/\ resp'.op = "revoke_request"
           /\ resp'.req.request_id = id
           /\ revoke_registration_request(id, a)) =>
             IF id \in RequestIds /\ public_key_requests[id].status = "approved"
             THEN /\ resp'.code = 200
                  /\ public_key_requests' =
                        [public_key_requests EXCEPT ![id] =
                            [@ EXCEPT !.status = "pending", !.approved_at = None,
                                      !.approved_by = None]]
             ELSE /\ resp'.code = 404
                  /\ UNCHANGED tables
      ]_vars

\* C13 witness: the revocation of a denied row was answered 404 and the row still
\* carries its denial and who decided it
C13_Witness ==
    /\ resp.op = "revoke_request"
    /\ resp.code = 404
    /\ resp.req.request_id \in RequestIds
    /\ public_key_requests[resp.req.request_id].status = "denied"
    /\ public_key_requests[resp.req.request_id].approved_by = Some("ops")
    /\ public_key_requests[resp.req.request_id].approved_at = Some(now)

(***************************************************************************)
(* SpecLifecycle: every route that reads or writes the registry, and the   *)
(* three upload routes, over one registry.                                 *)
(***************************************************************************)
LifecycleRegistrations == {<<"FA", KeyA>>, <<"FB", KeyA>>, <<"FB", KeyB>>}
LifecycleRequests ==
    {FullRequest(sig, now, "FA", FileA1) : sig \in {Sign("ecdsa", "A", now, FileA1), GarbageSignature}}

LifecycleRegister == \E fk \in LifecycleRegistrations : register_public_key(fk[1], fk[2])
LifecycleCheckStatus == \E k \in {KeyA, KeyB} : check_registration_status(k)
LifecycleApprove == \E id \in AdminIds : approve_registration_request(id, "admin")
LifecycleDeny == \E id \in AdminIds : deny_registration_request(id, "ops")
LifecycleRevoke == \E id \in AdminIds : revoke_registration_request(id, "admin")
LifecycleAddSerials == \E r \in LifecycleRequests : add_serials(r)
LifecycleAddBatch == \E r \in LifecycleRequests : add_batch_serials(r)
LifecycleAddChunk == \E r \in LifecycleRequests : add_chunk_serials(r)

NextLifecycle == \/ LifecycleRegister /\ NoTrack
                 \/ LifecycleCheckStatus /\ NoTrack
                 \/ LifecycleApprove /\ NoTrack
                 \/ LifecycleDeny /\ NoTrack
                 \/ LifecycleRevoke /\ NoTrack
                 \/ LifecycleAddSerials /\ NoTrack
                 \/ LifecycleAddBatch /\ NoTrack
                 \/ LifecycleAddChunk /\ NoTrack
SpecLifecycle == Init /\ [][NextLifecycle]_vars

\* the columns of a registration that an admin decision writes
Decision(row) == <<row.status, row.approved_at, row.approved_by>>
AdminOps == {"approve_request", "deny_request", "revoke_request"}

\* C14: no step removes a row of public_key_requests; the id (the position),
\* factory_name, public_key and created_at of a row never change; status,
\* approved_at and approved_by of a row change only in a step that serves an
\* approve, deny or revoke of that row's id; and a step that serves a register,
\* a status lookup or an upload leaves every existing row as it was.
C14_RegistryFrame ==
    [][/\ Len(public_key_requests') >= Len(public_key_requests)
       /\ \A i \in RequestIds :
             /\ public_key_requests'[i].factory_name = public_key_requests[i].factory_name
             /\ public_key_requests'[i].public_key = public_key_requests[i].public_key
             /\ public_key_requests'[i].created_at = public_key_requests[i].created_at
             /\ Decision(public_key_requests'[i]) # Decision(public_key_requests[i]) =>
                   /\ resp'.op \in AdminOps
                   /\ resp'.req.request_id = i
       /\ resp'.op \notin AdminOps =>
             \A i \in RequestIds : public_key_requests'[i] = public_key_requests[i]
      ]_vars

\* C14 witness: a registration was revoked and is still there, pending, beside a
\* denied one; a serial uploaded while the key was approved is stored; key A,
\* registered by FA, was registered again by FB and the row still names FA
C14_Witness ==
    /\ resp.op = "register_public_key"
    /\ resp.code = 200
    /\ resp.req = [factory_name |-> "FB", public_key |-> KeyA]
    /\ public_key_requests[resp.request_id].factory_name = "FA"
    /\ public_key_requests[resp.request_id].status = "pending"
    /\ Len(public_key_requests) = 2
    /\ \E i \in RequestIds : public_key_requests[i].status = "denied"
    /\ serials # {}

(***************************************************************************)
(* SpecNewest: one factory name with two registrations, key A and key B,   *)
(* decided at different times of a moving clock, and uploads signed with   *)
(* either key.                                                             *)
(***************************************************************************)
NewestRegistrations == {<<"FA", KeyA>>, <<"FA", KeyB>>}
NewestRequests ==
    {PlainRequest(Sign("ecdsa", m, now, FileA1), now, "FA", FileA1) : m \in {"A", "B"}}

NewestRegister == \E fk \in NewestRegistrations : register_public_key(fk[1], fk[2])
NewestApprove == \E id \in AdminIds : approve_registration_request(id, "admin")
NewestDeny == \E id \in AdminIds : deny_registration_request(id, "admin")
NewestUpload == \E r \in NewestRequests : add_serials(r)

NextNewest == \/ NewestRegister /\ NoTrack
              \/ NewestApprove /\ NoTrack
              \/ NewestDeny /\ NoTrack
              \/ NewestUpload /\ NoTrack
              \/ Tick
SpecNewest == Init /\ [][NextNewest]_vars

\* the approved registrations of factory name f that no approved registration of
\* f is newer than
NewestApprovedOf(f) ==
    {i \in ApprovedOf(f) :
        \A j \in ApprovedOf(f) :
           The(public_key_requests[j].approved_at) <= The(public_key_requests[i].approved_at)}

\* C15: the key lookup for a factory name answers None when no registration of
\* the name is approved, and otherwise the key of an approved registration with
\* the newest approved_at; so an upload with an ECDSA signature is accepted only
\* if a newest approved registration of the factory name holds the signing key
\* pair, and one signed with a key pair that only older approvals (or pending or
\* denied registrations) of that name hold is answered 403 Unauthorized and
\* writes nothing.
C15_NewestApprovalDecides ==
    [][\A r \in NewestRequests :
          (resp'.op = "add_serials" /\ resp'.req = r /\ add_serials(r)) =>
             LET holders == {i \in NewestApprovedOf(r.factory_id) :
                                public_key_requests[i].public_key.mat = r.signature.key}
             IN  /\ resp'.code \in {200, 403}
                 /\ resp'.code = 200 => holders # {}
                 /\ holders = {} => (resp'.error = "Unauthorized" /\ UNCHANGED tables)
                 /\ (holders # {} /\ holders = NewestApprovedOf(r.factory_id)) =>
                       resp'.code = 200
      ]_vars

\* C15 witness: key A was approved at time 0 and key B at time 1, both for FA and
\* both still approved; an upload signed with key A was then answered Unauthorized
C15_Witness ==
    /\ Len(public_key_requests) = 2
    /\ \E i, j \in RequestIds :
          /\ public_key_requests[i].public_key = KeyA
          /\ public_key_requests[i].status = "approved"
          /\ public_key_requests[i].approved_at = Some(0)
          /\ public_key_requests[j].public_key = KeyB
          /\ public_key_requests[j].status = "approved"
          /\ public_key_requests[j].approved_at = Some(1)
    /\ resp.op = "add_serials"
    /\ resp.code = 403
    /\ resp.error = "Unauthorized"
    /\ resp.req.signature = Sign("ecdsa", "A", The(resp.req.timestamp), resp.req.file)
    /\ The(resp.req.timestamp) = 1

(***************************************************************************)
(* Key-state changes and the request that follows them, checked on         *)
(* SpecUnapproved: resp is the response to the request served last, so a   *)
(* step that serves an upload while resp answers an admin decision is the  *)
(* very next request after that decision.                                  *)
(***************************************************************************)
\* C16 as stated: when the request served last was a successful revoke or deny
\* of registration x, an upload under x's factory name signed with x's key pair
\* is answered 403 Unauthorized and writes nothing, unless another approved
\* registration of that name holds the key pair; and when the request served
\* last was a successful approve of x, and x is the only approved registration
\* of its factory name, the upload under that name that is signed with x's key
\* pair is accepted.
C16_KeyChangeEffectiveNextRequest ==
    [][\A r \in UnapprovedRequests :
          (/\ resp.op \in AdminOps
           /\ resp.code = 200
           /\ ServedUpload(r)) =>
             LET x == resp.req.request_id
                 row == public_key_requests[x]
                 mine == /\ r.factory_id = row.factory_name
                         /\ r.signature = Sign("ecdsa", row.public_key.mat, now, r.file)
             IN  /\ (/\ resp.op \in {"revoke_request", "deny_request"}
                     /\ mine
                     /\ ApprovedWith(r.factory_id, row.public_key.mat) = {}) =>
                        /\ resp'.code = 403
                        /\ resp'.error = "Unauthorized"
                        /\ UNCHANGED tables
                 /\ (/\ resp.op = "approve_request"
                     /\ mine
                     /\ ApprovedOf(r.factory_id) = {x}) =>
                        resp'.code = 200
      ]_vars

(***************************************************************************)
(* SpecConcurrentUpload: the upload routes as the threaded server runs     *)
(* them.  A request authenticates, opens its own connection and runs its   *)
(* INSERTs inside one transaction; the rows reach the table that other     *)
(* connections read (serials) at conn.commit().  The steps of a worker:    *)
(*   upload_begin    the checks before the transaction and, for a batch,   *)
(*                   store_batch_metadata, which commits by itself         *)
(*   upload_execute  the next row of the loop                              *)
(*   upload_commit   the statements after the loop, commit and response    *)
(* inflight[w] holds the locals: the rows still to do, the rows the        *)
(* transaction wrote (tx), whether the transaction is aborted.  An INSERT  *)
(* whose serial_number an open transaction of another connection wrote     *)
(* waits for that transaction to end, by commit or by rollback.  The files of this specification     *)
(* list the serials they share in the same order, so no two transactions   *)
(* wait for each other.                                                    *)
(***************************************************************************)
\* the checks of an upload route before authentication: None, or the response
\* that rejects the request
upload_rejection(op, req) ==
    IF op = "add_serials" /\ (req.signature = NoSignature \/ IsNone(req.timestamp))
    THEN Some(<<403, "Missing authentication headers">>)
    ELSE IF op = "add_serials" /\ req.factory_id = ""
    THEN Some(<<400, "Missing factory ID header">>)
    ELSE IF /\ op # "add_serials"
            /\ \/ req.signature = NoSignature \/ IsNone(req.timestamp)
               \/ req.factory_id = "" \/ req.batch_id = ""
               \/ (op = "add_chunk_serials" /\ (IsNone(req.chunk_index) \/ IsNone(req.total_chunks)))
    THEN Some(<<400, "Missing required headers">>)
    ELSE IF request_expired(now, The(req.timestamp))
    THEN Some(<<403, "Request expired">>)
    ELSE IF ~req.file.present
    THEN Some(<<400, "No file uploaded">>)
    ELSE None

\* a plausible slip: the connection runs in autocommit mode, every INSERT is
\* visible to other connections at once
committed_after_execute_autocommit(table, row) == insert_on_conflict_do_nothing(table, row)

\* the table that other connections read after an INSERT inside an open
\* transaction: unchanged until the commit
committed_after_execute(table, row) == table

\* the rows that open transactions of connections other than w's have written
written_by_others(w) ==
    UNION {inflight[v].tx : v \in {u \in Workers \ {w} : inflight[u].pc = "insert"}}

\* the metadata dictionary of add_batch_serials (server.py:593-598)
batch_metadata(req) ==
    [factory_id |-> req.factory_id,
     test_run_count |-> IF IsNone(req.test_run_count) THEN 0 ELSE The(req.test_run_count),
     total_serials |-> 0, batch_id |-> req.batch_id]

\* worker w takes request req on route op and runs it up to its row loop
upload_begin(w, op, req) ==
    LET rejection == upload_rejection(op, req)
        csv_hash == compute_file_hash(req.file)
        stored == IF op = "add_batch_serials"
                  THEN store_batch_metadata(req.batch_id, batch_metadata(req))
                  ELSE batch_uploads
    IN  /\ inflight[w] = Idle
        /\ UNCHANGED <<public_key_requests, serials, batch_chunks, now, offline_queue>>
        /\ IF ~IsNone(rejection)
           THEN /\ resp' = UploadResp(op, req, The(rejection)[1], The(rejection)[2])
                /\ UNCHANGED <<batch_uploads, inflight>>
           ELSE \E auth \in verify_signature_with_factory_key(
                               req.signature, The(req.timestamp), csv_hash, req.factory_id) :
                   IF ~auth[1]
                   THEN /\ resp' = UploadResp(op, req, 403, "Unauthorized")
                        /\ UNCHANGED <<batch_uploads, inflight>>
                   ELSE IF ~req.file.decodable
                   THEN /\ resp' = UploadResp(op, req, 500, "Internal Server Error")
                        /\ batch_uploads' = stored
                        /\ UNCHANGED inflight
                   ELSE /\ batch_uploads' = stored
                        /\ inflight' = [inflight EXCEPT ![w] =
                              [pc |-> "insert", op |-> op, req |-> req,
                               factory_alias |-> The(auth[2]),
                               rows |-> valid_rows(data_rows(req.file)),
                               count |-> Len(valid_rows(data_rows(req.file))),
                               tx |-> {}, aborted |-> FALSE, added_count |-> 0]]
                        /\ UNCHANGED resp

\* the row that the INSERT of route op writes for a validated row
upload_row(l, parsed) ==
    serial_row(parsed[1], parsed[2], l.factory_alias,
               IF l.op = "add_serials" THEN None ELSE Some(l.req.batch_id),
               IF l.op = "add_chunk_serials" THEN l.req.chunk_index ELSE None)

\* worker w runs the INSERT of the next validated row of its request.  In
\* add_serials an INSERT that raises is swallowed (server.py:263-264) and the
\* loop goes on in the aborted transaction; in the other two routes it ends the
\* request with 500 and the connection is closed without a commit.
upload_execute(w) ==
    LET l == inflight[w]
        parsed == Head(l.rows)
        row == upload_row(l, parsed)
        taken == \E r \in serials \cup l.tx : r.serial_number = row.serial_number
    IN  /\ l.pc = "insert"
        /\ l.rows # <<>>
        /\ UNCHANGED <<public_key_requests, batch_uploads, batch_chunks, now, offline_queue>>
        /\ IF l.aborted
           THEN /\ inflight' = [inflight EXCEPT ![w].rows = Tail(l.rows)]
                /\ UNCHANGED <<serials, resp>>
           ELSE IF ~fits_serial_number(row.serial_number)
           THEN IF l.op = "add_serials"
                THEN /\ inflight' = [inflight EXCEPT ![w].rows = Tail(l.rows),
                                                      ![w].aborted = TRUE]
                     /\ UNCHANGED <<serials, resp>>
                ELSE /\ inflight' = [inflight EXCEPT ![w] = Idle]
                     /\ resp' = UploadResp(l.op, l.req, 500, "Internal Server Error")
                     /\ UNCHANGED serials
           ELSE /\ \A r \in written_by_others(w) : r.serial_number # row.serial_number
                /\ inflight' = [inflight EXCEPT
                                   ![w].rows = Tail(l.rows),
                                   ![w].tx = IF taken THEN @ ELSE @ \cup {row},
                                   ![w].added_count = added_after_execute(@, serials \cup l.tx,
                                                                          row.serial_number)]
                /\ serials' = committed_after_execute(serials, row)
                /\ UNCHANGED resp

\* worker w ends its request after the loop: the batch or chunk bookkeeping,
\* conn.commit() and the response
upload_commit(w) ==
    LET l == inflight[w]
    IN  /\ l.pc = "insert"
        /\ l.rows = <<>>
        /\ inflight' = [inflight EXCEPT ![w] = Idle]
        /\ serials' = commit(serials, [aborted |-> l.aborted, table |-> serials \cup l.tx])
        /\ UNCHANGED <<public_key_requests, now, offline_queue>>
        /\ IF l.op = "add_serials"
           THEN /\ resp' = [op |-> l.op, req |-> l.req, code |-> 200, error |-> "",
                            added_count |-> l.added_count]
                /\ UNCHANGED <<batch_uploads, batch_chunks>>
           ELSE IF l.op = "add_batch_serials"
           THEN /\ batch_uploads' = complete_batch(batch_uploads, l.req.batch_id, l.count)
                /\ resp' = [op |-> l.op, req |-> l.req, code |-> 200, error |-> "",
                            uploaded_count |-> l.count]
                /\ UNCHANGED batch_chunks
           ELSE /\ batch_chunks' = record_chunk(l.req.batch_id, The(l.req.chunk_index),
                                                The(l.req.total_chunks), l.count)
                /\ resp' = [op |-> l.op, req |-> l.req, code |-> 200, error |-> "",
                            uploaded_count |-> l.count]
                /\ UNCHANGED batch_uploads

\* two valid rows around a short row
FileTwo == CsvFile(<<HeaderRow, << <<"A", "1">>, Wwyy4023 >>, << <<"X">> >>,
                     << <<"B", "2">>, Wwyy4023 >> >>)
ConcurrentFiles == {FileTwo, FileLong}
ConcurrentOps == {"add_serials", "add_batch_serials"}
ConcurrentRequests ==
    {FullRequest(Sign("ecdsa", "A", now, f), now, "FA", f) : f \in ConcurrentFiles}
ConcurrentLookups == {K1S \o <<"B", "2">>}

ConcurrentRegister == register_public_key("FA", KeyA)
ConcurrentApprove == \E id \in AdminIds : approve_registration_request(id, "admin")
ConcurrentBegin == \E w \in Workers, op \in ConcurrentOps, r \in ConcurrentRequests :
                      upload_begin(w, op, r)
ConcurrentExecute == \E w \in Workers : upload_execute(w)
ConcurrentCommit == \E w \in Workers : upload_commit(w)
ConcurrentVerify == \E sn \in ConcurrentLookups : verify_serial(sn)

NextConcurrentUpload == \/ ConcurrentRegister /\ NoTrack
                        \/ ConcurrentApprove /\ NoTrack
                        \/ ConcurrentBegin /\ NoTrack
                        \/ ConcurrentExecute /\ NoTrack
                        \/ ConcurrentCommit /\ NoTrack
                        \/ ConcurrentVerify /\ NoTrack
SpecConcurrentUpload == Init /\ [][NextConcurrentUpload]_vars

\* C17: the rows that open transactions have written are in no state part of
\* the table that other connections read; the table changes only in the step
\* that commits a request and answers it 200, and that step leaves every
\* validated serial of the request's file stored, adding rows for no other
\* serial; a request that ends with another answer, or whose transaction was
\* aborted, leaves the table as it was; no row is ever removed and no two rows
\* share a serial_number.
C17_AtomicVisibility ==
    [][/\ serials \subseteq serials'
       /\ \A s1, s2 \in serials' : s1.serial_number = s2.serial_number => s1 = s2
       /\ \A w \in Workers :
             inflight[w].pc = "insert" =>
                /\ \A r \in inflight[w].tx : r.serial_number \notin SerialNumbers(serials)
                /\ (/\ inflight'[w] = Idle
                    /\ (resp'.code # 200 \/ inflight[w].aborted)) => serials' = serials
       /\ serials' # serials =>
             \E w \in Workers :
                /\ inflight[w].pc = "insert"
                /\ inflight'[w] = Idle
                /\ resp'.op = inflight[w].op
                /\ resp'.req = inflight[w].req
                /\ resp'.code = 200
                /\ ValidSerials(inflight[w].req.file) \subseteq SerialNumbers(serials')
                /\ SerialNumbers(serials' \ serials) \subseteq ValidSerials(inflight[w].req.file)
      ]_vars

\* C17 witness: a request has run both its INSERTs and not yet committed; the
\* table other connections read is empty and the lookup of K1S-B2, one of the
\* two serials, was answered Not Found; another request is running too
C17_Witness ==
    /\ \E w \in Workers :
          /\ inflight[w].pc = "insert"
          /\ inflight[w].rows = <<>>
          /\ SerialNumbers(inflight[w].tx) = {K1S \o <<"A", "1">>, K1S \o <<"B", "2">>}
          /\ \E v \in Workers \ {w} : inflight[v].pc = "insert"
    /\ serials = {}
    /\ resp.op = "verify"
    /\ resp.code = 404

\* C24 as stated: whenever a worker ends a delivery, alone or while other
\* deliveries of the same or of another payload are in progress, the request
\* has met no storage error and is answered 200, and the table holds exactly
\* one row for each validated serial of its payload.
C24_ConcurrentDeliveriesConverge ==
    [][\A w \in Workers :
          (inflight[w].pc = "insert" /\ inflight'[w] = Idle)
          => /\ resp'.code = 200
             /\ ~inflight[w].aborted
             /\ \A s \in ValidSerials(inflight[w].req.file) :
                   Cardinality({r \in serials' : r.serial_number = s}) = 1]_vars

(***************************************************************************)
(* SpecBatch: two approved factories upload batches, naming two batch ids, *)
(* with a file that is ingested in full and a file that is not UTF-8, on   *)
(* which the request fails after its metadata was stored.  Factory FB      *)
(* states a test-run count, factory FA does not.                           *)
(***************************************************************************)
\* an uploaded file whose bytes do not decode as UTF-8
FileNotUtf8 == [present |-> TRUE, decodable |-> FALSE, lines |-> <<>>]
BatchFiles == {FileMixed, FileNotUtf8}
BatchIds == {"B1", "B2"}
BatchKeys == [FA |-> "A", FB |-> "B"]
BatchRuns == [FA |-> None, FB |-> Some(2)]
BatchRequests ==
    {UploadRequest(Sign("ecdsa", BatchKeys[f], now, file), Some(now), f, file, b, BatchRuns[f], None, None) :
        f \in FactoryNames, file \in BatchFiles, b \in BatchIds}

\* history: the pairs <<batch id, number of validated rows>> of the batch
\* uploads that were ingested in full
Ingested(h) == IF h.op = "batches" THEN h.ingested ELSE {}
TrackBatches ==
    prev' = [op |-> "batches",
             ingested |-> Ingested(prev) \cup
                 IF resp'.op = "add_batch_serials" /\ resp'.code = 200
                 THEN {<<resp'.req.batch_id, Len(valid_rows(data_rows(resp'.req.file)))>>}
                 ELSE {}]

BatchRegister == \E f \in FactoryNames : register_public_key(f, KeyText(BatchKeys[f], "pem"))
BatchApprove == \E id \in AdminIds : approve_registration_request(id, "admin")
BatchUpload == \E r \in BatchRequests : add_batch_serials(r)

NextBatch == \/ BatchRegister /\ TrackBatches
             \/ BatchApprove /\ TrackBatches
             \/ BatchUpload /\ TrackBatches
SpecBatch == Init /\ [][NextBatch]_vars

\* C18 as stated: in every reachable state a batch_uploads row with status
\* completed has as total_serials the number of validated rows of a payload that
\* was ingested in full for its batch id.
C18_CompletedCountIsOfIngestedPayload ==
    \A b \in batch_uploads :
       b.status = "completed" => <<b.id, b.total_serials>> \in Ingested(prev)

\* the batch_uploads rows of one batch id
BatchRows(uploads, batch_id) == {b \in uploads : b.id = batch_id}

\* C19 as stated: every batch upload that reaches the metadata upsert leaves
\* exactly one batch_uploads row for its batch id, and that row carries the
\* factory id, the test-run count and the metadata blob of this call (and the
\* call's total of 0 when the request stops after the upsert); rows of other
\* batch ids are left alone.
C19_MetadataUpsertOverwrites ==
    [][\A r \in BatchRequests :
          (resp'.op = "add_batch_serials" /\ resp'.req = r /\ resp'.code \in {200, 500}
             /\ add_batch_serials(r))
          => /\ Cardinality(BatchRows(batch_uploads', r.batch_id)) = 1
             /\ \A b \in BatchRows(batch_uploads', r.batch_id) :
                   /\ b.factory_id = r.factory_id
                   /\ b.test_run_count = batch_metadata(r).test_run_count
                   /\ b.metadata = batch_metadata(r)
                   /\ resp'.code = 500 => b.total_serials = batch_metadata(r).total_serials
             /\ \A b \in batch_uploads : b.id # r.batch_id => b \in batch_uploads']_vars

\* server.py:613-625  the number of payload rows with at least two fields and
\* a week/year code that converts, counted row by row
rows_passing_validation(file) ==
    Cardinality({i \in 1..Len(data_rows(file)) :
                    /\ Len(data_rows(file)[i]) >= 2
                    /\ ~IsNone(convert_wwyy_to_date(strip(data_rows(file)[i][2])))})

\* C20: when add_batch_serials answers 200 for batch id b, the batch_uploads
\* row b has status completed, completed_at set, and total_serials equal to
\* the number of payload rows with at least two fields and a valid week/year
\* code; the response's uploaded_count is the same number.
C20_CompletedBatchCountsValidRows ==
    [][\A r \in BatchRequests :
          (resp'.op = "add_batch_serials" /\ resp'.req = r /\ resp'.code = 200
             /\ add_batch_serials(r))
          => /\ BatchRows(batch_uploads', r.batch_id) # {}
             /\ \A b \in BatchRows(batch_uploads', r.batch_id) :
                   /\ b.status = "completed"
                   /\ ~IsNone(b.completed_at)
                   /\ b.total_serials = rows_passing_validation(r.file)
             /\ resp'.uploaded_count = rows_passing_validation(r.file)]_vars

\* a batch upload of the file with skipped rows succeeded on a batch id that
\* an earlier upload had left with the metadata's count of 0
C20_Witness ==
    /\ resp.op = "add_batch_serials" /\ resp.code = 200
    /\ resp.req.file = FileMixed
    /\ Len(data_rows(FileMixed)) > rows_passing_validation(FileMixed)
    /\ resp.uploaded_count = 2
    /\ \E b \in batch_uploads :
          /\ b.id = resp.req.batch_id
          /\ b.status = "completed" /\ b.total_serials = 2
          /\ b.factory_id # resp.req.factory_id

(***************************************************************************)
(* SpecChunk: an approved factory uploads chunks 0 and 1 of two batches,   *)
(* each with a file of one valid row or with a file of two valid rows      *)
(* among skipped ones, in any order and any number of times.               *)
(***************************************************************************)
ChunkFiles == {FileA1, FileMixed}
ChunkIndexes == {0, 1}
ChunkRequests ==
    {UploadRequest(Sign("ecdsa", "A", now, file), Some(now), "FA", file, b, None, Some(c), Some(2)) :
        file \in ChunkFiles, b \in BatchIds, c \in ChunkIndexes}

\* history: the batch_chunks table before the step
ChunksBefore(h) == IF h.op = "chunks" THEN h.before ELSE {}
TrackChunks == prev' = [op |-> "chunks", before |-> batch_chunks]

ChunkRegister == register_public_key("FA", KeyA)
ChunkApprove == \E id \in AdminIds : approve_registration_request(id, "admin")
ChunkUpload == \E r \in ChunkRequests : add_chunk_serials(r)

NextChunk == \/ ChunkRegister /\ TrackChunks
             \/ ChunkApprove /\ TrackChunks
             \/ ChunkUpload /\ TrackChunks
SpecChunk == Init /\ [][NextChunk]_vars

\* the batch_chunks rows of one (batch id, chunk index)
ChunkRows(chunks, batch_id, chunk_index) ==
    {c \in chunks : c.batch_id = batch_id /\ c.chunk_index = chunk_index}

get_pending_uploads_count(factory_id) ==
    Cardinality({e \in offline_queue : e.factory_id = factory_id /\ e.status = "pending"})

\* crypto_utils.py get_failed_uploads_count
get_failed_uploads_count(factory_id) ==
    Cardinality({e \in offline_queue : e.factory_id = factory_id /\ e.status = "failed"})

\* a plausible slip: the UPDATE forgets WHERE factory_id = %s
reset_failed_uploads_every_factory(factory_id) ==
    {IF e.status = "failed"
     THEN [e EXCEPT !.status = "pending", !.retry_count = 0, !.error_message = None]
     ELSE e : e \in offline_queue}

\* a plausible slip: the UPDATE sets the status and leaves the attempt count
reset_failed_uploads_status_only(factory_id) ==
    {IF e.factory_id = factory_id /\ e.status = "failed"
     THEN [e EXCEPT !.status = "pending", !.error_message = None]
     ELSE e : e \in offline_queue}

\* crypto_utils.py reset_failed_uploads: the table after
\*   UPDATE offline_queue SET status = 'pending', retry_count = 0, error_message = NULL
\*   WHERE factory_id = %s AND status = 'failed'
reset_failed_uploads(factory_id) ==
    {IF e.factory_id = factory_id /\ e.status = "failed"
     THEN [e EXCEPT !.status = "pending", !.retry_count = 0, !.error_message = None]
     ELSE e : e \in offline_queue}

\* server.py:806-810, 760-764: the results the query
\*   SELECT factory_name ... WHERE public_key = %s AND status = 'approved'
\*   ORDER BY approved_at DESC LIMIT 1
\* can return
factory_of_public_key(public_key) ==
    LET approved == {i \in RequestIds :
                        /\ public_key_requests[i].public_key = public_key
                        /\ public_key_requests[i].status = "approved"}
        newest == Max({The(public_key_requests[i].approved_at) : i \in approved})
    IN  IF approved = {} THEN {None}
        ELSE {Some(public_key_requests[i].factory_name) :
                 i \in {j \in approved : The(public_key_requests[j].approved_at) = newest}}

\* server.py retry_failed_uploads
retry_failed_uploads(public_key) ==
    LET req == [public_key |-> public_key]
    IN  /\ UNCHANGED <<tables, now, inflight>>
        /\ IF public_key = NoKey
           THEN /\ resp' = [op |-> "retry_failed_uploads", req |-> req, code |-> 400,
                            error |-> "public_key required"]
                /\ UNCHANGED offline_queue
           ELSE \E result \in factory_of_public_key(public_key) :
                   IF IsNone(result)
                   THEN /\ resp' = [op |-> "retry_failed_uploads", req |-> req, code |-> 404,
                                    error |-> "Factory not found"]
                        /\ UNCHANGED offline_queue
                   ELSE /\ offline_queue' = reset_failed_uploads(The(result))
                        /\ resp' = [op |-> "retry_failed_uploads", req |-> req, code |-> 200,
                                    error |-> "", factory_id |-> The(result)]

\* db.py:108-122: a new row of offline_queue, with the column defaults for
\* status and retry_count; the writer states the retry budget
enqueue_delivery(factory_id, batch_id, max_retries) ==
    /\ Cardinality(offline_queue) < MaxQueue
    /\ offline_queue' = offline_queue \cup
          {[id |-> Cardinality(offline_queue) + 1, factory_id |-> factory_id,
            batch_id |-> batch_id, status |-> "pending", retry_count |-> 0,
            max_retries |-> max_retries, last_attempt |-> None, error_message |-> None]}
    /\ resp' = [op |-> "enqueue_delivery", code |-> 0, error |-> ""]
    /\ UNCHANGED <<tables, now, inflight>>

\* a delivery attempt of pending entry id failed: the attempt is counted and
\* stamped and its error kept; the entry is failed once its budget is spent
record_failed_attempt(id) ==
    /\ \E e \in offline_queue :
          /\ e.id = id /\ e.status = "pending" /\ e.retry_count < e.max_retries
          /\ offline_queue' = (offline_queue \ {e}) \cup
                {[e EXCEPT !.retry_count = @ + 1, !.last_attempt = Some(now),
                           !.error_message = Some("delivery failed"),
                           !.status = IF e.retry_count + 1 >= e.max_retries
                                      THEN "failed" ELSE "pending"]}
    /\ resp' = [op |-> "record_failed_attempt", code |-> 0, error |-> ""]
    /\ UNCHANGED <<tables, now, inflight>>

(***************************************************************************)
(* SpecQueue: two factories with approved keys, deliveries queued for      *)
(* them with a budget of two attempts, failed attempts, and resets asked   *)
(* for with either key, approved or not, and without a key.                *)
(***************************************************************************)
QueueIds == 1..MaxQueue
QueueBudgets == {2}
QueueKeys == {KeyA, KeyB, NoKey}

\* history: when the step serves a reset, the ids of the rows that were
\* failed, and of the rows that were pending, before it
TrackQueue ==
    prev' = IF resp'.op = "retry_failed_uploads"
            THEN [op |-> "queue",
                  failed |-> {<<e.id, e.factory_id>> : e \in {x \in offline_queue : x.status = "failed"}},
                  pending |-> {<<e.id, e.factory_id>> : e \in {x \in offline_queue : x.status = "pending"}}]
            ELSE [op |-> "other"]

QueueRegister == \E f \in FactoryNames : register_public_key(f, KeyText(BatchKeys[f], "pem"))
QueueApprove == \E id \in AdminIds : approve_registration_request(id, "admin")
QueueEnqueue == \E f \in FactoryNames, m \in QueueBudgets : enqueue_delivery(f, None, m)
QueueFailedAttempt == \E id \in QueueIds : record_failed_attempt(id)
QueueRetryFailed == \E k \in QueueKeys : retry_failed_uploads(k)

NextQueue == \/ QueueRegister /\ TrackQueue
             \/ QueueApprove /\ TrackQueue
             \/ QueueEnqueue /\ TrackQueue
             \/ QueueFailedAttempt /\ TrackQueue
             \/ QueueRetryFailed /\ TrackQueue
SpecQueue == Init /\ [][NextQueue]_vars

\* the row e as a reset leaves it
AfterReset(e) == [e EXCEPT !.status = "pending", !.retry_count = 0, !.error_message = None]

\* C22: a reset served for factory f turns every failed row of f into a
\* pending row with retry_count 0 and no error_message, leaves every row of
\* another factory and every pending row of f as it was, and afterwards f has
\* no failed row and as many pending rows as it had pending and failed rows.
C22_ResetFailedFrame ==
    [][\A k \in QueueKeys, f \in FactoryNames :
          (resp'.op = "retry_failed_uploads" /\ resp'.code = 200 /\ resp'.req.public_key = k
             /\ resp'.factory_id = f /\ retry_failed_uploads(k))
          =>     /\ \A e \in offline_queue :
                       IF e.factory_id = f /\ e.status = "failed"
                       THEN AfterReset(e) \in offline_queue' /\ e \notin offline_queue'
                       ELSE e \in offline_queue'
                 /\ Cardinality(offline_queue') = Cardinality(offline_queue)
                 /\ get_failed_uploads_count(f)' = 0
                 /\ get_pending_uploads_count(f)' =
                       get_pending_uploads_count(f) + get_failed_uploads_count(f)]_vars

\* a reset was served for a factory that had a failed row and a pending row
\* while the other factory had a failed row: the first is pending with no
\* attempts and no error, the row of the other factory is still failed
C22_Witness ==
    /\ resp.op = "retry_failed_uploads" /\ resp.code = 200
    /\ prev.op = "queue"
    /\ \E mine \in offline_queue, other \in offline_queue, kept \in offline_queue :
          /\ mine.factory_id = resp.factory_id
          /\ <<mine.id, mine.factory_id>> \in prev.failed
          /\ mine.status = "pending" /\ mine.retry_count = 0 /\ mine.error_message = None
          /\ mine.last_attempt # None
          /\ other.factory_id # resp.factory_id
          /\ <<other.id, other.factory_id>> \in prev.failed
          /\ other.status = "failed" /\ other.retry_count > 0
          /\ kept.factory_id = resp.factory_id
          /\ <<kept.id, kept.factory_id>> \in prev.pending
          /\ kept.status = "pending" /\ kept.retry_count = 1
    /\ get_failed_uploads_count(resp.factory_id) = 0
    /\ get_pending_uploads_count(resp.factory_id) = 2
\* the step serves a reset that covers factory f
ResetStepFor(f) ==
    /\ resp'.op = "retry_failed_uploads" /\ resp'.code = 200
    /\ resp'.factory_id = f

\* C23: in every step, a row's retry_count grows only when the step records
\* a failed delivery attempt (and then by one), shrinks only in a reset served
\* for the row's factory, and a row goes from failed to pending only in such a
\* reset, which leaves it with retry_count 0 and no error_message.
C23_RetryCountDiscipline ==
    [][\A e \in offline_queue : \A n \in {x \in offline_queue' : x.id = e.id} :
          /\ n.retry_count > e.retry_count
                => resp'.op = "record_failed_attempt" /\ n.retry_count = e.retry_count + 1
          /\ n.retry_count < e.retry_count => ResetStepFor(e.factory_id)
          /\ (e.status = "failed" /\ n.status = "pending")
                => /\ ResetStepFor(e.factory_id)
                   /\ n.retry_count = 0 /\ n.error_message = None]_vars

\* a failed attempt has just spent the budget of one row, which is failed
\* with two attempts counted, while another row, reset earlier after its own
\* failed attempts, is pending with none
C23_Witness ==
    /\ resp.op = "record_failed_attempt"
    /\ \E e \in offline_queue, n \in offline_queue :
          /\ e.status = "failed" /\ e.retry_count = 2 /\ e.error_message # None
          /\ n.id # e.id
          /\ n.status = "pending" /\ n.retry_count = 0 /\ n.error_message = None
          /\ n.last_attempt # None

(***************************************************************************)
(* SpecLegacy: uploads signed with the shared secret, as the legacy client *)
(* and add_serials_multi.py send them, without the X-Factory-ID header,    *)
(* and the same uploads with the header; lookups of the uploaded serials.  *)
(***************************************************************************)
LegacyFiles == {FileA1, FileTwo}
LegacyFactoryHeaders == {"", "FA"}
LegacyRequests ==
    {PlainRequest(Sign("hmac", HmacSecret, now, file), now, f, file) :
        f \in LegacyFactoryHeaders, file \in LegacyFiles}
LegacyLookups == {K1S \o <<"A", "1">>, K1S \o <<"B", "2">>}

LegacyRegister == register_public_key("FA", KeyA)
LegacyApprove == \E id \in AdminIds : approve_registration_request(id, "admin")
LegacyUpload == \E r \in LegacyRequests : add_serials(r)
LegacyVerify == \E sn \in LegacyLookups : verify_serial(sn)

NextLegacy == \/ LegacyRegister /\ NoTrack
              \/ LegacyApprove /\ NoTrack
              \/ LegacyUpload /\ NoTrack
              \/ LegacyVerify /\ NoTrack
              \/ Tick
SpecLegacy == Init /\ [][NextLegacy]_vars

\* C25 as stated: an add_serials request that carries the timestamp and the
\* signature headers and no factory header, with a fresh timestamp and the
\* HMAC tag of its message under the shared secret, is answered 200 and its
\* validated serials are stored, where verification finds them.
C25_LegacyClientAccepted ==
    [][\A r \in LegacyRequests :
          (resp'.op = "add_serials" /\ resp'.req = r /\ r.factory_id = ""
             /\ add_serials(r))
          => /\ resp'.code = 200
             /\ AllStored(r.file, serials')]_vars

(***************************************************************************)
(* SpecWeekCode: the row loop's treatment of one row, for the four-digit   *)
(* codes of every week 00..99 of years 2000, 2020, 2023 to 2026 and 2099,  *)
(* and for codes that are not digits.                                      *)
(***************************************************************************)
CodeYears == {<<"0", "0">>, <<"2", "0">>, <<"2", "3">>, <<"2", "4">>, <<"2", "5">>,
              <<"2", "6">>, <<"9", "9">>}
FourDigitCodes == {<<a, b>> \o yy : a \in DigitChars, b \in DigitChars, yy \in CodeYears}
OtherCodes == {<<>>, <<"a", "b", "c", "d">>, <<"4", "0", "2", "x">>, <<"4", "0", ".", "3">>,
               <<"W", "4", "0", "3">>}
WeekCodes == FourDigitCodes \cup OtherCodes

\* server.py:245-255: the loop body on the row A1,<wwyy>
parse_week_code_row(wwyy) ==
    /\ resp' = [op |-> "parse_row", req |-> [wwyy |-> wwyy],
                production_date |-> convert_wwyy_to_date(strip(wwyy)),
                parsed |-> parse_row(<< <<"A", "1">>, wwyy >>)]
    /\ UNCHANGED <<tables, now, prev, inflight, offline_queue>>

NextWeekCode == \E wwyy \in WeekCodes : parse_week_code_row(wwyy)
SpecWeekCode == Init /\ [][NextWeekCode]_vars

\* the ISO 8601 calendar: the number of weeks of year y (53 when 1 January is a
\* Thursday, or a Wednesday of a leap year), and the Monday of its week w
IsoWeeksInYear(y) ==
    IF Jan1Weekday(y) = 3 \/ (IsLeap(y) /\ Jan1Weekday(y) = 2) THEN 53 ELSE 52
IsoWeekMonday(y, w) ==
    LET wd == Jan1Weekday(y)
        first == IF wd <= 3 THEN 1 - wd ELSE 8 - wd
        j == first + 7 * (w - 1)
    IN  IF j <= 0 THEN DateOfYearDay(y - 1, j + YearLen(y - 1)) ELSE DateOfYearDay(y, j)

\* the week and the year that a code of four digits names
CodeWeek(wwyy) == DigitsValue(SubSeq(wwyy, 1, 2))
CodeYear(wwyy) == CenturyBase + DigitsValue(SubSeq(wwyy, 3, 4))

\* C26 as stated: the row of a code that is not made of decimal digits is
\* skipped, and the row of a four-digit code WWYY is skipped when WW is not an
\* ISO week number of year 2000 + YY (00, or a number past the year's last
\* week) and accepted otherwise.
C26_InvalidWeekCodeSkipsRow ==
    resp.op = "parse_row" =>
       LET wwyy == resp.req.wwyy
       IN  /\ wwyy \in OtherCodes => IsNone(resp.parsed)
           /\ wwyy \in FourDigitCodes =>
                 (IsNone(resp.parsed) <=> CodeWeek(wwyy) \notin 1..IsoWeeksInYear(CodeYear(wwyy)))

\* C27 as stated: the production date of every accepted four-digit code WWYY is
\* the Monday of ISO week WW of year 2000 + YY.
C27_ProductionDateIsIsoWeekMonday ==
    (resp.op = "parse_row" /\ resp.req.wwyy \in FourDigitCodes /\ ~IsNone(resp.parsed))
       => /\ CodeWeek(resp.req.wwyy) \in 1..IsoWeeksInYear(CodeYear(resp.req.wwyy))
          /\ The(resp.parsed)[2] = IsoWeekMonday(CodeYear(resp.req.wwyy), CodeWeek(resp.req.wwyy))

(***************************************************************************)
(* SpecKeyFormat: registrations with P-256 keys in both accepted forms and *)
(* with texts that are not P-256 keys: no key at all, an RSA key, an EC    *)
(* key on P-384.                                                           *)
(***************************************************************************)
KeyRsa == KeyText("R", "rsa")
KeyP384 == KeyText("C", "p384")
NotP256Keys == {KeyJunk, KeyRsa, KeyP384}
KeyFormatKeys == {KeyA, KeyAb64} \cup NotP256Keys

KeyFormatRegister == \E f \in FactoryNames, k \in KeyFormatKeys : register_public_key(f, k)
KeyFormatCheckStatus == \E k \in KeyFormatKeys : check_registration_status(k)
KeyFormatApprove == \E id \in AdminIds : approve_registration_request(id, "admin")

NextKeyFormat == \/ KeyFormatRegister /\ NoTrack
                 \/ KeyFormatCheckStatus /\ NoTrack
                 \/ KeyFormatApprove /\ NoTrack
SpecKeyFormat == Init /\ [][NextKeyFormat]_vars

SignatureRegistrations == {<<"FA", KeyA>>, <<"FA", KeyAb64>>, <<"FB", KeyB>>}
SignatureFiles == {FileA1, FileTwo}
SignatureSigners == {<<"ecdsa", "A">>, <<"ecdsa", "B">>, <<"hmac", HmacSecret>>,
                     <<"hmac", "another_secret">>}
SignatureRequests ==
    {PlainRequest(Sign(s[1], s[2], now + d, signed), now, f, file) :
        s \in SignatureSigners, d \in {0, 1}, signed \in SignatureFiles,
        f \in FactoryNames, file \in SignatureFiles}
    \cup {PlainRequest(GarbageSignature, now, "FA", FileA1)}

SignatureRegister == \E fk \in SignatureRegistrations : register_public_key(fk[1], fk[2])
SignatureApprove == \E id \in AdminIds : approve_registration_request(id, "admin")
SignatureUpload == \E r \in SignatureRequests : add_serials(r)

NextSignature == \/ SignatureRegister /\ NoTrack
                 \/ SignatureApprove /\ NoTrack
                 \/ SignatureUpload /\ NoTrack
SpecSignature == Init /\ [][NextSignature]_vars

\* signature is an ECDSA signature of message by key pair mat, or the HMAC tag
\* of message under the shared secret
VerifiesUnder(signature, message, mat) ==
    \/ signature.scheme = "ecdsa" /\ signature.key = mat /\ signature.msg = message
    \/ signature.scheme = "hmac" /\ signature.key = HmacSecret /\ signature.msg = message

\* C29 as stated: an upload with a fresh timestamp for a factory that has an
\* approved key is accepted when its signature, over the request's timestamp
\* and the hash of the request's file, verifies under the key that the lookup
\* resolves or is the HMAC tag under the shared secret, and is answered 403
\* Unauthorized, with no table changed, when it does neither.
C29_AuthenticatedIffSignatureVerifies ==
    [][\A r \in SignatureRequests :
          (resp'.op = "add_serials" /\ resp'.req = r /\ ApprovedOf(r.factory_id) # {}
             /\ add_serials(r))
          => LET message == create_signature_message(The(r.timestamp), compute_file_hash(r.file))
                 resolved == {The(k).mat : k \in get_factory_public_key_from_db(r.factory_id)}
             IN  /\ (\A mat \in resolved : VerifiesUnder(r.signature, message, mat))
                       => resp'.code = 200
                 /\ (\A mat \in resolved : ~VerifiesUnder(r.signature, message, mat))
                       => /\ resp'.code = 403 /\ resp'.error = "Unauthorized"
                          /\ UNCHANGED tables]_vars

(***************************************************************************)
(* SpecCheckOrder: the three upload endpoints with requests that lack the  *)
(* signature, the timestamp or the factory id, whose timestamp lies inside *)
(* or outside the replay window, and whose signature is valid or not, in   *)
(* any combination, against a registry of factory FA with key A.           *)
(***************************************************************************)
OrderOffsets == {-301, 0, 301}
OrderRequests ==
    {UploadRequest(sig, ts, f, FileA1, "B1", Some(1), Some(0), Some(1)) :
        sig \in {NoSignature, GarbageSignature}
                  \cup {Sign("ecdsa", "A", now + d, FileA1) : d \in OrderOffsets},
        ts \in {None} \cup {Some(now + d) : d \in OrderOffsets},
        f \in {"", "FA"}}

OrderRegister == register_public_key("FA", KeyA)
OrderApprove == \E id \in AdminIds : approve_registration_request(id, "admin")
OrderAddSerials == \E r \in OrderRequests : add_serials(r)
OrderAddBatch == \E r \in OrderRequests : add_batch_serials(r)
OrderAddChunk == \E r \in OrderRequests : add_chunk_serials(r)

NextCheckOrder == \/ OrderRegister /\ NoTrack
                  \/ OrderApprove /\ NoTrack
                  \/ OrderAddSerials /\ NoTrack
                  \/ OrderAddBatch /\ NoTrack
                  \/ OrderAddChunk /\ NoTrack
SpecCheckOrder == Init /\ [][NextCheckOrder]_vars

\* the answers of the three endpoints to a request that lacks a header
MissingHeaders ==
    {"Missing authentication headers", "Missing factory ID header", "Missing required headers"}
lacks_header(r) == r.signature = NoSignature \/ IsNone(r.timestamp) \/ r.factory_id = ""

fails_as_a_whole(r, response) ==
    \/ response.error \in MissingHeaders \cup {"Request expired", "Unauthorized", "No file uploaded"}
    \/ r.file.present /\ ~r.file.decodable

\* C31 as stated: an upload that fails as a whole leaves the serials,
\* batch_uploads and batch_chunks tables as they were before the request.
C31_WholeRequestFailureChangesNothing ==
    [][\A r \in BatchRequests :
          (ServedUpload(r) /\ fails_as_a_whole(r, resp')) => UNCHANGED upload_tables]_vars

(***************************************************************************)
(* SpecStorageFault: add_serials by two approved factories with files that *)
(* the store takes and a file with a serial it refuses (longer than the    *)
(* column), and the same requests arriving while the store cannot be       *)
(* reached for the key lookup.                                             *)
(***************************************************************************)
FaultFiles == {FileA1, FileTwo, FileLong}
FaultKeys == [FA |-> "A", FB |-> "B"]
FaultRequests ==
    {PlainRequest(Sign("ecdsa", FaultKeys[f], now, file), now, f, file) :
        f \in FactoryNames, file \in FaultFiles}

\* server.py add_serials when the key lookup meets a storage failure:
\* get_db_connection returns None (db.py:27-29, server.py:162-164) or the SELECT
\* raises and get_factory_public_key_from_db returns None
\* (crypto_utils.py:180-182, server.py:169-171); either way the lookup reports
\* (False, None) and the request is answered 403
add_serials_lookup_fails(req) ==
    /\ UNCHANGED <<tables, now, inflight, offline_queue>>
    /\ IF req.signature = NoSignature \/ IsNone(req.timestamp)
       THEN resp' = UploadResp("add_serials", req, 403, "Missing authentication headers")
       ELSE IF req.factory_id = ""
       THEN resp' = UploadResp("add_serials", req, 400, "Missing factory ID header")
       ELSE IF request_expired(now, The(req.timestamp))
       THEN resp' = UploadResp("add_serials", req, 403, "Request expired")
       ELSE IF ~req.file.present
       THEN resp' = UploadResp("add_serials", req, 400, "No file uploaded")
       ELSE resp' = UploadResp("add_serials", req, 403, "Unauthorized")

FaultRegister == \E f \in FactoryNames : register_public_key(f, KeyText(FaultKeys[f], "pem"))
FaultApprove == \E id \in AdminIds : approve_registration_request(id, "admin")
FaultUpload == \E r \in FaultRequests : add_serials(r)
FaultLookupDown == \E r \in FaultRequests : add_serials_lookup_fails(r)

NextStorageFault == \/ FaultRegister /\ NoTrack
                    \/ FaultApprove /\ NoTrack
                    \/ FaultUpload /\ NoTrack
                    \/ FaultLookupDown /\ NoTrack
SpecStorageFault == Init /\ [][NextStorageFault]_vars

\* the store refuses the INSERT of a row of the file that passed validation
insert_refused(file) ==
    \E i \in 1..Len(valid_rows(data_rows(file))) :
        ~fits_serial_number(valid_rows(data_rows(file))[i][1])

\* C32 as stated: an upload of an approved factory that meets a storage failure,
\* at the key lookup or at a row insert, is answered with the generic 500
\* failure and stores nothing.
C32_StorageFailureIsInternalFailure ==
    [][\A r \in FaultRequests :
          (resp'.op = "add_serials" /\ resp'.req = r /\ ApprovedOf(r.factory_id) # {})
          => /\ add_serials_lookup_fails(r)
                   => resp'.code = 500 /\ resp'.error = "Internal Server Error"
             /\ (add_serials(r) /\ insert_refused(r.file))
                   => /\ resp'.code = 500 /\ resp'.error = "Internal Server Error"
                      /\ UNCHANGED tables]_vars

\* what a verification strategy hands back: the tuple (is_valid, error), or an
\* exception that leaves the function
Returned(is_valid, error) == [is_valid |-> is_valid, error |-> error, raised |-> FALSE]
Raised(exception) == [is_valid |-> FALSE, error |-> Some(exception), raised |-> TRUE]

\* a plausible slip: only InvalidSignature is handled, without the final
\* except Exception
verify_ecdsa_signature_result_invalid_only(public_key_pem, message, signature) ==
    IF public_key_pem.form = "rsa" THEN Returned(FALSE, Some("Public key is not an EC key"))
    ELSE IF public_key_pem.form \notin {"pem", "p384"} THEN Raised("ValueError")
    ELSE IF signature.scheme = "garbage" THEN Raised("binascii.Error")
    ELSE IF /\ signature.scheme = "ecdsa"
            /\ signature.key = public_key_pem.mat
            /\ signature.msg = message
         THEN Returned(TRUE, None)
    ELSE Returned(FALSE, Some("Invalid signature"))

\* crypto_utils.py verify_ecdsa_signature with its handlers: a text that
\* load_pem_public_key cannot load raises ValueError (line 35), a key that is
\* not an EC key is answered at line 39, a signature that is not base64 raises
\* at line 42, and verify raises InvalidSignature for every other signature
\* that is not one of this key over this message (lines 45-49); lines 54-59
\* turn every exception into (False, text)
verify_ecdsa_signature_result(public_key_pem, message, signature) ==
    IF public_key_pem.form = "rsa" THEN Returned(FALSE, Some("Public key is not an EC key"))
    ELSE IF public_key_pem.form \notin {"pem", "p384"} THEN Returned(FALSE, Some("ValueError"))
    ELSE IF signature.scheme = "garbage" THEN Returned(FALSE, Some("binascii.Error"))
    ELSE IF /\ signature.scheme = "ecdsa"
            /\ signature.key = public_key_pem.mat
            /\ signature.msg = message
         THEN Returned(TRUE, None)
    ELSE Returned(FALSE, Some("Invalid signature"))

\* crypto_utils.py verify_hmac_signature with its handler: a signature that is
\* not base64 raises at line 84, which lines 94-96 turn into (False, text); a
\* decoded signature is compared with the expected tag (lines 87-92)
verify_hmac_signature_result(message, signature) ==
    IF signature.scheme = "garbage" THEN Returned(FALSE, Some("binascii.Error"))
    ELSE IF /\ signature.scheme = "hmac"
            /\ signature.key = HmacSecret
            /\ signature.msg = message
         THEN Returned(TRUE, None)
    ELSE Returned(FALSE, Some("Signature mismatch"))

(***************************************************************************)
(* SpecStrategies: add_serials by factory FA, whose key A is registered in *)
(* PEM form and in base64 form, with signatures of key pair A over the     *)
(* request's message and over another timestamp, of key pair B, HMAC tags  *)
(* under the shared and under another secret, and bytes that are no        *)
(* signature.                                                              *)
(***************************************************************************)
StrategyRegistrations == {<<"FA", KeyA>>, <<"FA", KeyAb64>>}
StrategySignatures ==
    {Sign("ecdsa", "A", now, FileA1), Sign("ecdsa", "A", now + 1, FileA1),
     Sign("ecdsa", "B", now, FileA1), Sign("hmac", HmacSecret, now, FileA1),
     Sign("hmac", "another_secret", now, FileA1), Sign("hmac", HmacSecret, now, FileTwo),
     GarbageSignature}
StrategyRequests ==
    {PlainRequest(sig, now, "FA", file) : sig \in StrategySignatures, file \in {FileA1, FileTwo}}

StrategyRegister == \E fk \in StrategyRegistrations : register_public_key(fk[1], fk[2])
StrategyApprove == \E id \in AdminIds : approve_registration_request(id, "admin")
StrategyDeny == \E id \in AdminIds : deny_registration_request(id, "admin")
StrategyUpload == \E r \in StrategyRequests : add_serials(r)

NextStrategies == \/ StrategyRegister /\ NoTrack
                  \/ StrategyApprove /\ NoTrack
                  \/ StrategyDeny /\ NoTrack
                  \/ StrategyUpload /\ NoTrack
SpecStrategies == Init /\ [][NextStrategies]_vars

\* C33: in every upload that reaches the signature check, with the key that
\* the lookup resolved (a PEM text or a base64 text that does not load) and the
\* signature of the request (of this or another key, over this or another
\* message, an HMAC tag, or bytes that are no signature), each strategy hands
\* back (is_valid, error) and raises nothing, is_valid is the value the
\* pipeline branches on, a failure carries a reason, and when both strategies
\* fail the request is answered 403 Unauthorized with no table changed.
C33_VerificationStrategiesAreTotal ==
    [][\A r \in StrategyRequests :
          (resp'.op = "add_serials" /\ resp'.req = r /\ ApprovedOf(r.factory_id) # {}
             /\ add_serials(r))
          => LET message == create_signature_message(The(r.timestamp), compute_file_hash(r.file))
                 ecdsa(k) == verify_ecdsa_signature_result(The(k), message, r.signature)
                 hmac == verify_hmac_signature_result(message, r.signature)
             IN  /\ \A k \in get_factory_public_key_from_db(r.factory_id) :
                       /\ ~ecdsa(k).raised /\ ~hmac.raised
                       /\ ecdsa(k).is_valid = verify_ecdsa_signature(The(k), message, r.signature)
                       /\ hmac.is_valid = verify_hmac_signature(message, r.signature)
                       /\ ecdsa(k).is_valid <=> IsNone(ecdsa(k).error)
                       /\ hmac.is_valid <=> IsNone(hmac.error)
                 /\ (\A k \in get_factory_public_key_from_db(r.factory_id) :
                        ~ecdsa(k).is_valid /\ ~hmac.is_valid)
                       => /\ resp'.code = 403 /\ resp'.error = "Unauthorized"
                          /\ UNCHANGED tables]_vars

\* C33 witness: bytes that are no signature, sent by a factory whose approved
\* key is a base64 text that does not load, were answered 403 Unauthorized
C33_Witness ==
    /\ resp.op = "add_serials"
    /\ resp.req.signature = GarbageSignature
    /\ \E i \in ApprovedOf(resp.req.factory_id) : public_key_requests[i].public_key = KeyAb64
    /\ resp.code = 403 /\ resp.error = "Unauthorized"
    /\ serials = {}

(***************************************************************************)
(* SpecRevokeRace: the upload routes as the threaded server runs them,     *)
(* while the administrator approves, denies and revokes the registration   *)
(* of the uploading factory.  The key lookup runs on a connection of its   *)
(* own that is closed before the request opens the connection it writes    *)
(* with (server.py:162, 194, 231).                                         *)
(***************************************************************************)
RevokeRaceOps == {"add_serials", "add_chunk_serials"}
RevokeRaceRequests == {FullRequest(Sign("ecdsa", "A", now, f), now, "FA", f) : f \in {FileA1, FileTwo}}

RevokeRaceRegister == register_public_key("FA", KeyA)
RevokeRaceApprove == \E id \in AdminIds : approve_registration_request(id, "admin")
RevokeRaceDeny == \E id \in AdminIds : deny_registration_request(id, "admin")
RevokeRaceRevoke == \E id \in AdminIds : revoke_registration_request(id, "admin")
RevokeRaceBegin == \E w \in Workers, op \in RevokeRaceOps, r \in RevokeRaceRequests :
                      upload_begin(w, op, r)
RevokeRaceExecute == \E w \in Workers : upload_execute(w)
RevokeRaceCommit == \E w \in Workers : upload_commit(w)

NextRevokeRace == \/ RevokeRaceRegister /\ NoTrack
                  \/ RevokeRaceApprove /\ NoTrack
                  \/ RevokeRaceDeny /\ NoTrack
                  \/ RevokeRaceRevoke /\ NoTrack
                  \/ RevokeRaceBegin /\ NoTrack
                  \/ RevokeRaceExecute /\ NoTrack
                  \/ RevokeRaceCommit /\ NoTrack
SpecRevokeRace == Init /\ [][NextRevokeRace]_vars

\* C34 as stated: a request that commits when no registration of its factory
\* is approved any more, the only approved one having been revoked or denied
\* after the request's key lookup, persists no serial row.
C34_RevokeBeforeCommitStopsRequest ==
    [][\A w \in Workers :
          (/\ inflight[w].pc = "insert" /\ inflight'[w] = Idle
           /\ ApprovedOf(inflight[w].req.factory_id) = {})
          => serials' = serials]_vars

\* C35 as stated: the count that an accepted add_serials reports is the number
\* of rows of the payload that passed validation, whatever the table held
\* before, and it is at most the number of data rows.
C35_AddedCountIsValidatedRows ==
    [][\A r \in IngestRequests :
          (resp'.op = "add_serials" /\ resp'.req = r /\ resp'.code = 200 /\ add_serials(r))
          => /\ resp'.added_count = Len(valid_rows(data_rows(r.file)))
             /\ resp'.added_count <= Len(data_rows(r.file))]_vars

(***************************************************************************)
(* SpecChunkFrame: batch uploads and chunk uploads by factory FA for the   *)
(* same two batch ids.  A batch upload of a file that is not UTF-8 leaves  *)
(* its batch_uploads row in status processing; the chunk uploads carry     *)
(* chunk 0 (one row) or chunk 1 (two rows) of 2.                           *)
(***************************************************************************)
ChunkFrameBatchRequests ==
    {UploadRequest(Sign("ecdsa", "A", now, file), Some(now), "FA", file, "B1", None, None, None) :
        file \in {FileA1, FileNotUtf8}}
ChunkFrameFiles == <<FileA1, FileTwo>>
ChunkFrameRequests ==
    {UploadRequest(Sign("ecdsa", "A", now, ChunkFrameFiles[c + 1]), Some(now), "FA",
                   ChunkFrameFiles[c + 1], b, None, Some(c), Some(2)) :
        b \in BatchIds, c \in ChunkIndexes}

ChunkFrameRegister == register_public_key("FA", KeyA)
ChunkFrameApprove == \E id \in AdminIds : approve_registration_request(id, "admin")
ChunkFrameAddBatch == \E r \in ChunkFrameBatchRequests : add_batch_serials(r)
ChunkFrameAddChunk == \E r \in ChunkFrameRequests : add_chunk_serials(r)

NextChunkFrame == \/ ChunkFrameRegister /\ NoTrack
                  \/ ChunkFrameApprove /\ NoTrack
                  \/ ChunkFrameAddBatch /\ NoTrack
                  \/ ChunkFrameAddChunk /\ NoTrack
SpecChunkFrame == Init /\ [][NextChunkFrame]_vars

\* C36: a chunk upload leaves the batch_uploads table as it was, whether or
\* not a row for its batch exists and whether or not the chunk is the last of
\* its batch to arrive; an authenticated chunk is answered 200 and every
\* validated serial of its file is stored, whichever chunks of the batch were
\* recorded before.
C36_ChunkUploadLeavesBatchUploads ==
    [][\A r \in ChunkFrameRequests :
          (resp'.op = "add_chunk_serials" /\ resp'.req = r /\ add_chunk_serials(r))
          => /\ batch_uploads' = batch_uploads
             /\ ApprovedOf(r.factory_id) # {}
                   => /\ resp'.code = 200
                      /\ AllStored(r.file, serials')
                      /\ ChunkRows(batch_chunks', r.batch_id, The(r.chunk_index)) # {}]_vars

\* C36 witness: batch B1 has a batch_uploads row in status processing with no
\* serials counted, both of its 2 chunks are recorded, and the last step was
\* an accepted chunk upload for B1
C36_Witness ==
    /\ resp.op = "add_chunk_serials" /\ resp.code = 200 /\ resp.req.batch_id = "B1"
    /\ \A c \in ChunkIndexes : ChunkRows(batch_chunks, "B1", c) # {}
    /\ \E b \in batch_uploads :
          /\ b.id = "B1" /\ b.status = "processing"
          /\ b.total_serials = 0 /\ IsNone(b.completed_at)
    /\ serials # {}

(***************************************************************************)
(* SpecStatusGraph: one registration and the three administrator actions   *)
(* on it, by id, whatever its status; the history remembers the statuses   *)
(* the registration went through, up to MaxPath of them.                   *)
(***************************************************************************)
StatusPath(h) == IF h.op = "statuses" THEN h.path ELSE <<>>
TrackStatuses ==
    prev' = [op |-> "statuses",
             path |-> IF /\ Len(public_key_requests') >= 1
                         /\ Len(StatusPath(prev)) < MaxPath
                         /\ \/ StatusPath(prev) = <<>>
                            \/ StatusPath(prev)[Len(StatusPath(prev))] # public_key_requests'[1].status
                      THEN Append(StatusPath(prev), public_key_requests'[1].status)
                      ELSE StatusPath(prev)]

StatusGraphRegister == register_public_key("FA", KeyA)
StatusGraphApprove == \E id \in AdminIds, a \in Actors : approve_registration_request(id, a)
StatusGraphDeny == \E id \in AdminIds, a \in Actors : deny_registration_request(id, a)
StatusGraphRevoke == \E id \in AdminIds, a \in Actors : revoke_registration_request(id, a)

NextStatusGraph == \/ StatusGraphRegister /\ TrackStatuses
                   \/ StatusGraphApprove /\ TrackStatuses
                   \/ StatusGraphDeny /\ TrackStatuses
                   \/ StatusGraphRevoke /\ TrackStatuses
SpecStatusGraph == Init /\ [][NextStatusGraph]_vars

\* an administrator action can take registration i to status s in one step
CanBecome(i, s) ==
    ENABLED (/\ \/ approve_registration_request(i, "admin")
                \/ deny_registration_request(i, "admin")
                \/ revoke_registration_request(i, "admin")
             /\ TrackStatuses
             /\ public_key_requests'[i].status = s)

\* C37: in every reachable state a pending registration can be approved and can
\* be denied, an approved one can be revoked to pending and can be denied, and a
\* denied one can be approved, so from each status each status is reached in
\* at most two actions and none is terminal; and a step changes the status of
\* an existing registration to pending only from approved, by revoke.
C37_NoTerminalStatus ==
    /\ [](\A i \in RequestIds :
             /\ public_key_requests[i].status = "pending"
                   => CanBecome(i, "approved") /\ CanBecome(i, "denied")
             /\ public_key_requests[i].status = "approved"
                   => CanBecome(i, "pending") /\ CanBecome(i, "denied")
             /\ public_key_requests[i].status = "denied"
                   => CanBecome(i, "approved") /\ ~CanBecome(i, "pending"))
    /\ [][\A i \in RequestIds :
             (/\ public_key_requests'[i].status = "pending"
              /\ public_key_requests[i].status # "pending")
             => /\ public_key_requests[i].status = "approved"
                /\ resp'.op = "revoke_request"
                /\ resp'.req.request_id = i]_vars

\* C37 witness: the registration was created pending, denied, approved from
\* denied, and revoked back to pending
C37_Witness ==
    /\ StatusPath(prev) = <<"pending", "denied", "approved", "pending">>
    /\ resp.op = "revoke_request" /\ resp.code = 200
    /\ public_key_requests[1].status = "pending"

\* the serial numbers "K1S-" + trimmed device id of the data rows of a file that
\* have two fields and a week code that converts, letter case as submitted
SubmittedSerials(file) ==
    {K1S \o strip(data_rows(file)[i][1]) :
        i \in {j \in 1..Len(data_rows(file)) :
                  /\ Len(data_rows(file)[j]) >= 2
                  /\ ~IsNone(convert_wwyy_to_date(strip(data_rows(file)[j][2])))}}

\* C38: on all three endpoints the serial numbers that an upload adds to the
\* table are among "K1S-" + trimmed device id of its validated rows, in the
\* letter case submitted, and an accepted upload leaves each of them stored; so
\* after a1 and A1 were both uploaded the table holds a row for K1S-a1 and
\* another for K1S-A1.
C38_SerialNumberKeepsCase ==
    [][\A r \in IngestRequests :
          ServedUpload(r)
          => /\ SerialNumbers(serials' \ serials) \subseteq SubmittedSerials(r.file)
             /\ (resp'.code = 200 /\ ~insert_refused(r.file))
                   => SubmittedSerials(r.file) \subseteq SerialNumbers(serials')
             /\ \A s1, s2 \in serials' : s1.serial_number = s2.serial_number => s1 = s2]_vars

\* C38 witness: the files with device id A1 and with device id a1 were both
\* uploaded, the second by a chunk upload, and the table holds the two rows
C38_Witness ==
    /\ resp.op = "add_chunk_serials" /\ resp.code = 200 /\ resp.req.file = FileLower
    /\ K1S \o <<"A", "1">> \in SerialNumbers(serials)
    /\ K1S \o <<"a", "1">> \in SerialNumbers(serials)
    /\ Cardinality(serials) = 2

\* C39: in every reachable state each row of public_key_requests has status
\* pending, approved or denied; a pending row has approved_at and approved_by
\* NULL, and an approved row has approved_at set.
C39_RegistrationStatusInvariant ==
    \A i \in RequestIds :
       LET row == public_key_requests[i]
       IN  /\ row.status \in {"pending", "approved", "denied"}
           /\ row.status = "pending" => IsNone(row.approved_at) /\ IsNone(row.approved_by)
           /\ row.status = "approved" => ~IsNone(row.approved_at)

\* C39 witness: a registration that was approved has just been revoked and is
\* pending with both approval columns NULL, beside an approved registration
\* that carries its approval time
C39_Witness ==
    /\ resp.op = "revoke_request" /\ resp.code = 200
    /\ public_key_requests[resp.req.request_id].status = "pending"
    /\ IsNone(public_key_requests[resp.req.request_id].approved_at)
    /\ IsNone(public_key_requests[resp.req.request_id].approved_by)
    /\ \E i \in RequestIds :
          /\ public_key_requests[i].status = "approved"
          /\ ~IsNone(public_key_requests[i].approved_at)

(***************************************************************************)
(* SpecFirstWriter: two approved factories upload, on the three endpoints  *)
(* and under two batch ids, a file that gives device A1 week 40 of 2023    *)
(* and a file that gives it week 1 of 2024.                                *)
(***************************************************************************)
FirstWriterKeys == [FA |-> "A", FB |-> "B"]
\* device A1 with week 1 of 2024
FileA1Later == CsvFile(<<HeaderRow, << <<"A", "1">>, <<"0", "1", "2", "4">> >> >>)
FirstWriterRequests ==
    {UploadRequest(Sign("ecdsa", FirstWriterKeys[f], now, file), Some(now), f, file,
                   FirstWriterKeys[f], Some(1), Some(IF file = FileA1 THEN 0 ELSE 1), Some(2)) :
        f \in FactoryNames, file \in {FileA1, FileA1Later}}

FirstWriterRegister == \E f \in FactoryNames : register_public_key(f, KeyText(FirstWriterKeys[f], "pem"))
FirstWriterApprove == \E id \in AdminIds : approve_registration_request(id, "admin")
FirstWriterAddSerials == \E r \in FirstWriterRequests : add_serials(r)
FirstWriterAddBatch == \E r \in FirstWriterRequests : add_batch_serials(r)
FirstWriterAddChunk == \E r \in FirstWriterRequests : add_chunk_serials(r)

NextFirstWriter == \/ FirstWriterRegister /\ NoTrack
                   \/ FirstWriterApprove /\ NoTrack
                   \/ FirstWriterAddSerials /\ NoTrack
                   \/ FirstWriterAddBatch /\ NoTrack
                   \/ FirstWriterAddChunk /\ NoTrack
SpecFirstWriter == Init /\ [][NextFirstWriter]_vars

\* C40: every step leaves each existing serial row with its production_date,
\* provenance, batch_id and chunk_index, and as the only row of its
\* serial_number, also when the step is an accepted upload of that serial
\* number by the other factory, with the other week code, on another endpoint
\* or under another batch id or chunk index.
C40_FirstWriterWins ==
    [][\A s \in serials :
          /\ \E t \in serials' : t.serial_number = s.serial_number
          /\ \A t \in serials' :
             t.serial_number = s.serial_number
             => /\ t.production_date = s.production_date
                /\ t.provenance = s.provenance
                /\ t.batch_id = s.batch_id
                /\ t.chunk_index = s.chunk_index]_vars

\* C40 witness: device A1 is stored as add_serials of factory FA wrote it (week
\* 40 of 2023, no batch, no chunk) after factory FB had a chunk upload accepted
\* that gives A1 week 1 of 2024 under batch B, chunk 1
C40_Witness ==
    /\ resp.op = "add_chunk_serials" /\ resp.code = 200
    /\ resp.req.factory_id = "FB" /\ resp.req.file = FileA1Later
    /\ \E s \in serials :
          /\ s.serial_number = K1S \o <<"A", "1">>
          /\ s.production_date = [year |-> 2023, month |-> 10, day |-> 2]
          /\ s.provenance = "FA"
          /\ IsNone(s.batch_id) /\ IsNone(s.chunk_index)
    /\ \E c \in batch_chunks : c.batch_id = "B" /\ c.chunk_index = 1
    /\ Cardinality(serials) = 1

====
